---- MODULE Spec2Model ----
(***************************************************************************)
(* Verisca agronomic calculation and assessment engine.                    *)
(*                                                                         *)
(* A model of backend/app/services/calculations.py (lookup resolver,       *)
(* calculators, seeding), backend/app/services/orchestrator.py (method     *)
(* selection), backend/app/services/spatial.py (sampling-point generator)  *)
(* and the admin lookup update of backend/app/api/v1/calculations.py.      *)
(*                                                                         *)
(* Numbers.  Python floats are modelled as exact rationals <<n, d>> in     *)
(* lowest terms with d > 0.  round(x, k) is modelled as rounding to the    *)
(* nearest multiple of 10^-k, ties to the even multiple, which is what     *)
(* Python does on a value that is exactly representable.                   *)
(***************************************************************************)
EXTENDS Integers, Sequences, FiniteSets, TLC

VARIABLES
    store,      \* the lookup_tables relation: a set of LookupTable rows
    last,       \* the request being answered: [op, args, out]; op = "idle" when none
    updates,    \* number of admin lookup updates performed so far
    phase,      \* generate_sampling_points: "idle", "loop", "returned", "raised"
    plan,       \* generate_sampling_points: the arguments of the running call
    points,     \* generate_sampling_points: the accepted points
    attempts,   \* generate_sampling_points: the attempts counter
    calls,       \* calculator invocations running side by side, one per caller
    claims      \* the claims relation and the number of claim ids given out

vars == <<store, last, updates, phase, plan, points, attempts, calls, claims>>

----------------------------------------------------------------------------
(* Rational arithmetic                                                     *)

Abs(n) == IF n < 0 THEN -n ELSE n

RECURSIVE GCD(_, _)
GCD(a, b) == IF b = 0 THEN a ELSE GCD(b, a % b)

Norm(n, d) ==
    LET g == GCD(Abs(n), Abs(d))
        s == IF d < 0 THEN -1 ELSE 1
    IN  <<(s * n) \div g, (s * d) \div g>>

R(n) == <<n, 1>>
Dec(n, d) == Norm(n, d)

RAdd(a, b) ==
    LET g == GCD(a[2], b[2])
    IN  Norm(a[1] * (b[2] \div g) + b[1] * (a[2] \div g), (a[2] \div g) * b[2])

RNeg(a) == <<-a[1], a[2]>>
RSub(a, b) == RAdd(a, RNeg(b))

RMul(a, b) ==
    LET g1 == GCD(Abs(a[1]), b[2])
        g2 == GCD(Abs(b[1]), a[2])
    IN  Norm((a[1] \div g1) * (b[1] \div g2), (a[2] \div g2) * (b[2] \div g1))

\* defined for b # 0 only; callers test for the ZeroDivisionError first
RDiv(a, b) == RMul(a, Norm(b[2], b[1]))

RLt(a, b) == a[1] * b[2] < b[1] * a[2]
RLe(a, b) == a[1] * b[2] <= b[1] * a[2]
RGt(a, b) == RLt(b, a)
RGe(a, b) == RLe(b, a)
RMin(a, b) == IF RLt(b, a) THEN b ELSE a
RMax(a, b) == IF RGt(b, a) THEN b ELSE a

\* round(a, k) with unit = 10^k: nearest multiple of 1/unit, ties to even
RRound(a, unit) ==
    LET m == a[1] * unit
        q == m \div a[2]
        r == m % a[2]
        up == (2 * r > a[2]) \/ (2 * r = a[2] /\ q % 2 = 1)
    IN  Norm(IF up THEN q + 1 ELSE q, unit)

RECURSIVE RSum(_)
RSum(s) == IF s = <<>> THEN R(0) ELSE RAdd(Head(s), RSum(Tail(s)))

Zero == R(0)
One == R(1)
Hundred == R(100)

----------------------------------------------------------------------------
(* LookupTable rows (backend/app/models/lookup.py) and the seeded charts   *)

\* stage_column = None (the default of get_lookup_value)
NoStage == "None"

Entry(t, x, c, y) ==
    [table_name |-> t, input_value |-> x, stage_or_condition |-> c, output_value |-> y]

\* unique_lookup_cell
UniqueLookupCell(db) ==
    \A e, f \in db :
        (e.table_name = f.table_name /\ e.input_value = f.input_value
            /\ e.stage_or_condition = f.stage_or_condition) => e = f

HasTable(db, t) == \E e \in db : e.table_name = t

stages11 == <<"emergence", "2ndLeaf", "4thLeaf", "6thLeaf", "8thLeaf", "10thLeaf">>

chart_data11 ==
    [p \in {100, 90, 80, 70, 60, 50} |->
        CASE p = 100 -> <<100, 100, 100, 100, 100, 100>>
          [] p = 90 -> <<90, 92, 94, 96, 97, 98>>
          [] p = 80 -> <<80, 84, 88, 92, 94, 96>>
          [] p = 70 -> <<70, 76, 82, 88, 91, 94>>
          [] p = 60 -> <<60, 68, 76, 84, 88, 92>>
          [] p = 50 -> <<50, 60, 70, 80, 85, 90>>]

Exhibit11 ==
    { Entry("exhibit11_standReduction", R(p), stages11[i], R(chart_data11[p][i])) :
        p \in DOMAIN chart_data11, i \in 1..6 }

Exhibit13 ==
    { Entry("exhibit13_hailStandReduction", R(r[1]), s, R(r[2])) :
        r \in {<<10, 3>>, <<50, 48>>, <<100, 100>>},
        s \in {"7thLeaf", "8thLeaf", "9thLeaf", "10thLeaf"} }

Exhibit14 ==
    { Entry("exhibit14_hailStandReduction", R(r[1]), s, R(r[2])) :
        r \in {<<10, 9>>, <<50, 50>>, <<100, 100>>},
        s \in {"11thLeaf", "15thLeaf", "tasseled"} }

Exhibit15 ==
    { Entry("exhibit15_leafLoss", R(r[1]), r[2], R(r[3])) :
        r \in {<<100, "7thLeaf", 9>>, <<50, "7thLeaf", 4>>,
               <<100, "10thLeaf", 16>>, <<50, "10thLeaf", 7>>,
               <<100, "tasseled", 100>>, <<50, "tasseled", 32>>} }

Exhibit21 ==
    { Entry("exhibit21_silageMoisture", R(r[1]), "factor", Dec(r[2], 100)) :
        r \in {<<50, 140>>, <<55, 125>>, <<60, 115>>, <<65, 100>>,
               <<70, 90>>, <<75, 80>>, <<80, 70>>} }

Exhibit23 ==
    { Entry("exhibit23_moistureAdjustment", R(r[1]), "moisture_factor", Dec(r[2], 10000)) :
        r \in {<<10, 10588>>, <<15, 10000>>, <<20, 9412>>,
               <<25, 8824>>, <<30, 8235>>, <<35, 7647>>} }

Exhibit24 ==
    { Entry("exhibit24_testWeightPack", R(w), "factor", Dec(w + 44, 100)) : w \in 45..56 }

seed_exhibit_13(db) ==
    IF HasTable(db, "exhibit13_hailStandReduction") THEN db ELSE db \cup Exhibit13

seed_exhibit_14(db) ==
    IF HasTable(db, "exhibit14_hailStandReduction") THEN db ELSE db \cup Exhibit14

seed_exhibit_15(db) ==
    IF HasTable(db, "exhibit15_leafLoss") THEN db ELSE db \cup Exhibit15

seed_exhibit_17(db) == db

seed_exhibit_21(db) ==
    IF HasTable(db, "exhibit21_silageMoisture") THEN db ELSE db \cup Exhibit21

seed_exhibit_23(db) ==
    IF HasTable(db, "exhibit23_moistureAdjustment") THEN db ELSE db \cup Exhibit23

seed_exhibit_24(db) ==
    IF HasTable(db, "exhibit24_testWeightPack") THEN db ELSE db \cup Exhibit24

\* returns early when exhibit 11 is present, without looking at 13, 14, 15
seed_lookup_tables(db) ==
    IF HasTable(db, "exhibit11_standReduction") THEN db
    ELSE seed_exhibit_15(seed_exhibit_14(seed_exhibit_13(db \cup Exhibit11)))

----------------------------------------------------------------------------
(* CalculationService.get_lookup_value                                     *)

\* `if stage_column:` -- None and "" add no condition filter to the query
Truthy(c) == c \notin {NoStage, ""}

Returned(y) == [raised |-> "", value |-> y]
Raised(err) == [raised |-> err, value |-> Zero]

\* rows of the WHERE clause shared by the three queries
Matching(db, table_name, stage_column) ==
    { e \in db : /\ e.table_name = table_name
                 /\ (Truthy(stage_column) => e.stage_or_condition = stage_column) }

\* ORDER BY input_value ... LIMIT 1 leaves the row unspecified among rows of
\* equal input_value; `pick` is the row order the database happens to use
PickRow(rows, pick) ==
    IF pick = "low"
    THEN CHOOSE e \in rows : \A f \in rows : RLe(e.output_value, f.output_value)
    ELSE CHOOSE e \in rows : \A f \in rows : RGe(e.output_value, f.output_value)

Interpolate(x, x1, y1, x2, y2) ==
    RRound(RAdd(y1, RDiv(RMul(RSub(x, x1), RSub(y2, y1)), RSub(x2, x1))), 100)

\* lines 62-76: the two bounds are in hand
Between(input_value, lower_bound, upper_bound) ==
    IF lower_bound = upper_bound THEN Returned(lower_bound.output_value)
    ELSE IF upper_bound.input_value = lower_bound.input_value
    THEN Returned(lower_bound.output_value)
    ELSE Returned(Interpolate(input_value,
                              lower_bound.input_value, lower_bound.output_value,
                              upper_bound.input_value, upper_bound.output_value))

\* lines 41-60: the lower-bound and upper-bound queries
Bounds(lowers, uppers, input_value, pick) ==
    IF lowers = {} \/ uppers = {} THEN Raised("ValueError")
    ELSE Between(input_value,
                 PickRow({ e \in lowers : \A f \in lowers : RGe(e.input_value, f.input_value) },
                         pick),
                 PickRow({ e \in uppers : \A f \in uppers : RLe(e.input_value, f.input_value) },
                         pick))

\* a resolver that rounds what the exact-match row holds
Resolve_rounding(rows, exact, input_value, pick) ==
    IF Cardinality(exact) > 1 THEN Raised("MultipleResultsFound")
    ELSE IF exact # {} THEN Returned(RRound((CHOOSE e \in exact : TRUE).output_value, 100))
    ELSE Bounds({ e \in rows : RLe(e.input_value, input_value) },
                { e \in rows : RGe(e.input_value, input_value) },
                input_value, pick)

\* lines 24-39: the exact-match query, scalar_one_or_none
Resolve(rows, exact, input_value, pick) ==
    IF Cardinality(exact) > 1 THEN Raised("MultipleResultsFound")
    ELSE IF exact # {} THEN Returned((CHOOSE e \in exact : TRUE).output_value)
    ELSE Bounds({ e \in rows : RLe(e.input_value, input_value) },
                { e \in rows : RGe(e.input_value, input_value) },
                input_value, pick)

get_lookup_value(db, table_name, input_value, stage_column, pick) ==
    Resolve(Matching(db, table_name, stage_column),
            { e \in Matching(db, table_name, stage_column) : e.input_value = input_value },
            input_value, pick)

----------------------------------------------------------------------------
(* update_lookup_value (PATCH /admin/lookup-tables)                        *)

update_lookup_value(db, table_name, input_value, stage_or_condition, output_value) ==
    LET found == { e \in Matching(db, table_name, stage_or_condition) :
                     e.input_value = input_value }
    IN  IF Cardinality(found) > 1 THEN [raised |-> "MultipleResultsFound", db |-> db]
        ELSE IF found = {} THEN [raised |-> "HTTP404", db |-> db]
        ELSE LET entry == CHOOSE e \in found : TRUE
             IN  [raised |-> "",
                  db |-> (db \ {entry}) \cup {[entry EXCEPT !.output_value = output_value]}]

----------------------------------------------------------------------------
(* CalculationService.calculate_stand_reduction                            *)

late_stages ==
    {"11thLeaf", "12thLeaf", "13thLeaf", "14thLeaf", "15thLeaf", "16thLeaf", "tasseled"}

mature_stages == {"silked", "blister", "milk", "dough", "dent", "mature"}

StandTable(growth_stage) ==
    IF growth_stage \in late_stages THEN "exhibit12_standReduction"
    ELSE "exhibit11_standReduction"

\* what one resolver call site did: the query it made and how it ended
NoLookup == [consulted |-> FALSE, table |-> "", input |-> Zero, stage |-> "", raised |-> ""]
Looked(t, x, c, r) ==
    [consulted |-> TRUE, table |-> t, input |-> x, stage |-> c, raised |-> r.raised]

\* a loop body without the `except ValueError` of line 138
StandPotential_propagating(sample, growth_stage, current_pop_per_ha, percent_stand, looked) ==
    [raised |-> looked.raised,
     sample_number |-> sample.sample_number,
     surviving_plants |-> sample.surviving_plants,
     current_pop_per_ha |-> current_pop_per_ha,
     percent_stand |-> percent_stand,
     percent_potential |-> IF looked.raised = "" THEN looked.value ELSE percent_stand,
     lookup |-> Looked(StandTable(growth_stage), percent_stand, growth_stage, looked)]

\* lines 127-144: the potential of one sample once the resolver has answered
StandPotential(sample, growth_stage, current_pop_per_ha, percent_stand, looked) ==
    [raised |-> IF looked.raised \in {"", "ValueError"} THEN "" ELSE looked.raised,
     sample_number |-> sample.sample_number,
     surviving_plants |-> sample.surviving_plants,
     current_pop_per_ha |-> current_pop_per_ha,
     percent_stand |-> percent_stand,
     percent_potential |-> IF looked.raised = "" THEN looked.value ELSE percent_stand,
     lookup |-> Looked(StandTable(growth_stage), percent_stand, growth_stage, looked)]

\* lines 123-131: percent stand, then the maturity branch or the chart
StandFromStand(db, sample, growth_stage, pick, current_pop_per_ha, percent_stand) ==
    IF growth_stage \in mature_stages
    THEN [raised |-> "", sample_number |-> sample.sample_number,
          surviving_plants |-> sample.surviving_plants,
          current_pop_per_ha |-> current_pop_per_ha,
          percent_stand |-> percent_stand, percent_potential |-> percent_stand,
          lookup |-> NoLookup]
    ELSE StandPotential(sample, growth_stage, current_pop_per_ha, percent_stand,
                        get_lookup_value(db, StandTable(growth_stage), percent_stand,
                                         growth_stage, pick))

\* a percent stand without the cap of line 124
StandFromPopulation_uncapped(db, sample, growth_stage, normal_pop, pick, current_pop_per_ha) ==
    StandFromStand(db, sample, growth_stage, pick, current_pop_per_ha,
        RMul(RDiv(current_pop_per_ha, R(normal_pop)), Hundred))

\* lines 119-124
StandFromPopulation(db, sample, growth_stage, normal_pop, pick, current_pop_per_ha) ==
    StandFromStand(db, sample, growth_stage, pick, current_pop_per_ha,
        RMin(Hundred, RMax(Zero, RMul(RDiv(current_pop_per_ha, R(normal_pop)), Hundred))))

\* the loop body, lines 112-150: one sample's values before rounding
StandSample(db, sample, growth_stage, normal_pop, pick) ==
    IF RMul(sample.length_measured_m, sample.row_width_m) = Zero \/ normal_pop = 0
    THEN [raised |-> "ZeroDivisionError", sample_number |-> sample.sample_number,
          surviving_plants |-> sample.surviving_plants, current_pop_per_ha |-> Zero,
          percent_stand |-> Zero, percent_potential |-> Zero, lookup |-> NoLookup]
    ELSE StandFromPopulation(db, sample, growth_stage, normal_pop, pick,
            RMul(RDiv(R(sample.surviving_plants),
                      RMul(sample.length_measured_m, sample.row_width_m)), R(10000)))

\* the exception, if any, that the first failing sample raises
FirstRaised(per) ==
    IF \E i \in DOMAIN per : per[i].raised # ""
    THEN per[CHOOSE i \in DOMAIN per :
                /\ per[i].raised # ""
                /\ \A j \in DOMAIN per : per[j].raised # "" => i <= j].raised
    ELSE ""

Mean(total, n) == IF n > 0 THEN RDiv(total, R(n)) ELSE Zero

\* lines 152-164: the aggregate and the response; `loop` keeps what the loop
\* computed for each sample, before rounding
StandResult(samples, growth_stage, normal_pop, per, avg_potential) ==
    IF FirstRaised(per) # ""
    THEN [raised |-> FirstRaised(per), method |-> "stand_reduction"]
    ELSE [raised |-> "",
          method |-> "stand_reduction",
          growth_stage |-> growth_stage,
          table_used |-> IF growth_stage \in mature_stages THEN "direct_maturity"
                         ELSE StandTable(growth_stage),
          normal_population |-> normal_pop,
          average_potential_yield_pct |-> RRound(avg_potential, 100),
          loss_percentage |-> RRound(RSub(Hundred, avg_potential), 100),
          sample_details |->
              [i \in DOMAIN samples |->
                  [sample_number |-> per[i].sample_number,
                   surviving_plants |-> per[i].surviving_plants,
                   current_population_ha |-> RRound(per[i].current_pop_per_ha, 1),
                   percent_stand |-> RRound(per[i].percent_stand, 10),
                   percent_potential_yield |-> RRound(per[i].percent_potential, 10)]],
          loop |-> per]

StandAggregate(samples, growth_stage, normal_pop, per) ==
    StandResult(samples, growth_stage, normal_pop, per,
        Mean(RSum([i \in DOMAIN samples |-> per[i].percent_potential]), Len(samples)))

calculate_stand_reduction(db, samples, growth_stage, normal_pop, pick) ==
    StandAggregate(samples, growth_stage, normal_pop,
        [i \in DOMAIN samples |-> StandSample(db, samples[i], growth_stage, normal_pop, pick)])

----------------------------------------------------------------------------
(* CalculationService.calculate_hail_damage                                *)

HailStandTable(growth_stage) ==
    IF growth_stage \in {"7thLeaf", "8thLeaf", "9thLeaf", "10thLeaf"}
    THEN "exhibit13_hailStandReduction"
    ELSE IF growth_stage \in late_stages THEN "exhibit14_hailStandReduction"
    ELSE "None"

StalkDamage(stalk_severity) ==
    CASE stalk_severity = "light" -> R(10)
      [] stalk_severity = "moderate" -> R(35)
      [] stalk_severity = "severe" -> R(75)
      [] OTHER -> Zero

\* totals whose second cap is missing
SampleTotalLoss_one_cap(stand, stalk, growing_point, ear, direct_input, defoliation) ==
    LET total_direct ==
            RMin(Hundred, RAdd(stand, RAdd(stalk, RAdd(growing_point, RAdd(ear, direct_input)))))
    IN  [total_direct |-> total_direct,
         sample_total_loss |-> RAdd(total_direct, defoliation)]

\* lines 306-315: direct damage capped, defoliation added, capped again
SampleTotalLoss(stand, stalk, growing_point, ear, direct_input, defoliation) ==
    LET total_direct ==
            RMin(Hundred, RAdd(stand, RAdd(stalk, RAdd(growing_point, RAdd(ear, direct_input)))))
    IN  [total_direct |-> total_direct,
         sample_total_loss |-> RMin(Hundred, RAdd(total_direct, defoliation))]

\* lines 306-339: the totals of one sample once every component c is known
HailTotals(sample, c, totals) ==
    [raised |-> c.raised,
     sample_number |-> sample.sample_number,
     percent_reduction |-> c.percent_reduction,
     stand_damage_pct |-> c.stand_damage_pct,
     percent_defoliation |-> sample.percent_defoliation,
     defoliation_damage_pct |-> c.defoliation_damage_pct,
     stalk_damage_pct |-> StalkDamage(sample.stalk_damage_severity),
     growing_point_pct |-> sample.growing_point_damage_pct,
     ear_damage_pct |-> sample.ear_damage_pct,
     direct_damage_input |-> sample.direct_damage_pct,
     total_direct |-> totals.total_direct,
     sample_total_loss |-> totals.sample_total_loss,
     stand_lookup |-> c.stand_lookup,
     defol_lookup |-> c.defol_lookup]

HailComponents(sample, c) ==
    HailTotals(sample, c,
               SampleTotalLoss(c.stand_damage_pct, StalkDamage(sample.stalk_damage_severity),
                               sample.growing_point_damage_pct, sample.ear_damage_pct,
                               sample.direct_damage_pct, c.defoliation_damage_pct))

\* lines 262-291: stand damage and defoliation damage from the two resolver
\* answers; a ValueError falls back, any other exception leaves the call
HailLooked(sample, growth_stage, percent_reduction, stand_table, stand_looked, defol_looked) ==
    HailComponents(sample,
        [percent_reduction |-> percent_reduction,
         stand_damage_pct |->
            IF stand_table = "None" \/ stand_looked.raised # ""
            THEN percent_reduction ELSE stand_looked.value,
         defoliation_damage_pct |->
            IF RGt(sample.percent_defoliation, Zero) /\ defol_looked.raised = ""
            THEN defol_looked.value ELSE Zero,
         raised |->
            IF stand_table # "None" /\ stand_looked.raised \notin {"", "ValueError"}
            THEN stand_looked.raised
            ELSE IF RGt(sample.percent_defoliation, Zero)
                    /\ defol_looked.raised \notin {"", "ValueError"}
            THEN defol_looked.raised ELSE "",
         stand_lookup |->
            IF stand_table = "None" THEN NoLookup
            ELSE Looked(stand_table, percent_reduction, growth_stage, stand_looked),
         defol_lookup |->
            IF (stand_table = "None" \/ stand_looked.raised \in {"", "ValueError"})
               /\ RGt(sample.percent_defoliation, Zero)
            THEN Looked("exhibit15_leafLoss", sample.percent_defoliation, growth_stage,
                        defol_looked)
            ELSE NoLookup])

HailFromReduction(db, sample, growth_stage, pick, percent_reduction) ==
    HailLooked(sample, growth_stage, percent_reduction, HailStandTable(growth_stage),
        get_lookup_value(db, HailStandTable(growth_stage), percent_reduction,
                         growth_stage, pick),
        get_lookup_value(db, "exhibit15_leafLoss", sample.percent_defoliation,
                         growth_stage, pick))

\* the loop body, lines 253-339: one sample's values before rounding
HailSample(db, sample, growth_stage, pick) ==
    HailFromReduction(db, sample, growth_stage, pick,
        RMin(Hundred, RMax(Zero,
            IF sample.original_stand_count > 0
            THEN RMul(RDiv(R(sample.destroyed_plants), R(sample.original_stand_count)),
                      Hundred)
            ELSE Zero)))

\* lines 329-334: the per-sample value each damage_breakdown key accumulates
BreakdownSource ==
    [stand_reduction |-> "stand_damage_pct", defoliation |-> "defoliation_damage_pct",
     stalk_damage |-> "stalk_damage_pct", growing_point |-> "growing_point_pct",
     ear_damage |-> "ear_damage_pct", other_direct |-> "direct_damage_input"]

\* lines 341-360: the aggregate and the response; `loop` keeps what the loop
\* computed for each sample, before rounding
HailResult(samples, growth_stage, per, num_samples, avg_loss) ==
    [raised |-> "",
     method |-> "hail_damage",
     growth_stage |-> growth_stage,
     loss_percentage |-> RRound(avg_loss, 10),
     average_potential_yield_pct |-> RRound(RSub(Hundred, avg_loss), 10),
     damage_breakdown |->
         [k \in DOMAIN BreakdownSource |->
             RRound(RDiv(RSum([i \in DOMAIN samples |-> per[i][BreakdownSource[k]]]),
                         R(num_samples)), 10)],
     sample_details |->
         [i \in DOMAIN samples |->
             [sample_number |-> per[i].sample_number,
              percent_stand_reduction_input |-> RRound(per[i].percent_reduction, 10),
              stand_damage_pct |-> RRound(per[i].stand_damage_pct, 10),
              defoliation_input_pct |-> RRound(per[i].percent_defoliation, 10),
              defoliation_damage_pct |-> RRound(per[i].defoliation_damage_pct, 10),
              stalk_damage_pct |-> RRound(per[i].stalk_damage_pct, 10),
              growing_point_damage_pct |-> RRound(per[i].growing_point_pct, 10),
              ear_damage_pct |-> RRound(per[i].ear_damage_pct, 10),
              direct_damage_other_pct |-> RRound(per[i].direct_damage_input, 10),
              total_direct_damage |-> RRound(per[i].total_direct, 10),
              total_sample_loss |-> RRound(per[i].sample_total_loss, 10)]],
     loop |-> per]

\* the result and the store as the call leaves it (lines 348-351 seed exhibits
\* 17, 23 and 24 before returning)
HailAggregate(db, samples, growth_stage, per) ==
    IF FirstRaised(per) # ""
    THEN [out |-> [raised |-> FirstRaised(per), method |-> "hail_damage"], db |-> db]
    ELSE [out |-> HailResult(samples, growth_stage, per,
                      IF Len(samples) > 0 THEN Len(samples) ELSE 1,
                      Mean(RSum([i \in DOMAIN samples |-> per[i].sample_total_loss]),
                           Len(samples))),
          db |-> seed_exhibit_24(seed_exhibit_23(seed_exhibit_17(db)))]

calculate_hail_damage(db, samples, growth_stage, pick) ==
    HailAggregate(db, samples, growth_stage,
        [i \in DOMAIN samples |-> HailSample(db, samples[i], growth_stage, pick)])

----------------------------------------------------------------------------
(* CalculationService.calculate_weight_method                              *)

\* an absent optional float (None)
None == <<>>

\* lines 392-404: `try: factor = lookup(...)  except: pass` around a default of 1.0
FactorFrom(table_name, input, condition, looked) ==
    [factor |-> IF looked.raised = "" THEN looked.value ELSE One,
     lookup |-> Looked(table_name, input, condition, looked)]

FactorOrDefault(db, table_name, input, condition, pick) ==
    IF input = None THEN [factor |-> One, lookup |-> NoLookup]
    ELSE FactorFrom(table_name, input, condition,
                    get_lookup_value(db, table_name, input, condition, pick))

\* the loop body, lines 406-458
WeightSample(sample, moisture_factor, test_weight_factor) ==
    LET weight_lbs == sample.weight_lbs
        area_acres == sample.sample_area_acres
        shelling_factor == Dec(8, 10)
        shelled_weight == RMul(weight_lbs, shelling_factor)
        bushels_sample == RDiv(shelled_weight, R(56))
        bushels_per_acre_raw == RDiv(bushels_sample, area_acres)
        bushels_adjusted == RMul(RMul(bushels_per_acre_raw, moisture_factor), test_weight_factor)
        foreign_mat == RDiv(sample.foreign_material_pct, Hundred)
        damaged_ker == RDiv(sample.damaged_kernels_pct, Hundred)
        broken_ker == RDiv(sample.broken_kernels_pct, Hundred)
        heat_dmg == RDiv(sample.heat_damage_pct, Hundred)
        total_deduction_pct == RAdd(RAdd(foreign_mat, damaged_ker), RAdd(broken_ker, heat_dmg))
        bushels_final == RMul(bushels_adjusted, RSub(One, total_deduction_pct))
    IN  IF area_acres = Zero
        THEN [raised |-> "ZeroDivisionError", bushels_final |-> Zero, detail |-> <<>>]
        ELSE [raised |-> "",
              bushels_final |-> bushels_final,
              detail |->
                [sample_number |-> sample.sample_number,
                 raw_weight_lbs |-> weight_lbs,
                 shelled_weight_lbs |-> RRound(shelled_weight, 10),
                 yield_bu_acre_raw |-> RRound(bushels_per_acre_raw, 10),
                 quality_adjustments |->
                    [moisture_factor |-> moisture_factor,
                     test_weight_factor |-> test_weight_factor,
                     foreign_material_deduction |-> RRound(RMul(foreign_mat, Hundred), 10),
                     damaged_kernel_deduction |-> RRound(RMul(damaged_ker, Hundred), 10),
                     broken_kernel_deduction |-> RRound(RMul(broken_ker, Hundred), 10),
                     heat_damage_deduction |-> RRound(RMul(heat_dmg, Hundred), 10)],
                 yield_bu_acre_adj |-> RRound(bushels_final, 10)]]

\* lines 460-468: the aggregate and the response
WeightResult(samples, moisture, test, per) ==
    IF FirstRaised(per) # ""
    THEN [raised |-> FirstRaised(per), method |-> "weight_method"]
    ELSE [raised |-> "",
          method |-> "weight_method",
          avg_yield_bu_acre |->
              RRound(Mean(RSum([i \in DOMAIN samples |-> per[i].bushels_final]),
                          Len(samples)), 10),
          moisture_factor |-> moisture.factor,
          test_weight_factor |-> test.factor,
          sample_details |-> [i \in DOMAIN samples |-> per[i].detail],
          moisture_lookup |-> moisture.lookup,
          test_weight_lookup |-> test.lookup]

WeightFromFactors(samples, moisture, test) ==
    WeightResult(samples, moisture, test,
        [i \in DOMAIN samples |-> WeightSample(samples[i], moisture.factor, test.factor)])

calculate_weight_method(db, samples, moisture_pct, test_weight, pick) ==
    WeightFromFactors(samples,
        FactorOrDefault(db, "exhibit23_moistureAdjustment", moisture_pct,
                        "moisture_factor", pick),
        FactorOrDefault(db, "exhibit24_testWeightPack", test_weight, "factor", pick))

----------------------------------------------------------------------------
(* CalculationService.calculate_tonnage_method                             *)

\* lines 574-577
AutoGrade(moisture_pct, visual_damage_pct) ==
    IF RLe(moisture_pct, R(65)) /\ RLe(visual_damage_pct, R(10)) THEN "excellent"
    ELSE IF RLe(moisture_pct, R(70)) /\ RLe(visual_damage_pct, R(25)) THEN "good"
    ELSE IF RLe(moisture_pct, R(75)) /\ RLe(visual_damage_pct, R(50)) THEN "fair"
    ELSE "poor"

\* quality_map.get(final_grade, 0.70)
QualityFactor(final_grade) ==
    CASE final_grade = "excellent" -> One
      [] final_grade = "good" -> Dec(95, 100)
      [] final_grade = "fair" -> Dec(85, 100)
      [] OTHER -> Dec(70, 100)

\* the loop body, lines 594-611
TonnageSample(sample, moisture_factor, quality_factor) ==
    LET fresh_weight == sample.fresh_weight_lbs
        area_acres == sample.sample_area_acres
        tons_raw == RDiv(RDiv(fresh_weight, R(2000)), area_acres)
        tons_adj == RMul(RMul(tons_raw, moisture_factor), quality_factor)
    IN  IF area_acres = Zero
        THEN [raised |-> "ZeroDivisionError", tons_adj |-> Zero, detail |-> <<>>]
        ELSE [raised |-> "",
              tons_adj |-> tons_adj,
              detail |-> [sample_number |-> sample.sample_number,
                          fresh_weight_lbs |-> fresh_weight,
                          tons_per_acre_raw |-> RRound(tons_raw, 10),
                          tons_per_acre_adj |-> RRound(tons_adj, 10)]]

\* lines 613-624: the aggregate and the response; `moisture_factor` keeps the
\* factor the loop used
TonnageResult(samples, quality_grade, final_grade, moisture, per, avg_tons) ==
    IF FirstRaised(per) # ""
    THEN [raised |-> FirstRaised(per), method |-> "tonnage"]
    ELSE [raised |-> "",
          method |-> "tonnage",
          tons_per_acre |-> RRound(avg_tons, 10),
          moisture_adjusted_tons |-> RRound(RDiv(avg_tons, QualityFactor(final_grade)), 10),
          quality_grade |-> final_grade,
          quality_multiplier |-> QualityFactor(final_grade),
          recommended_for_silage |-> RGt(avg_tons, R(5)),
          tonnage_confidence |-> IF quality_grade # "" THEN Dec(85, 100) ELSE Dec(70, 100),
          sample_details |-> [i \in DOMAIN samples |-> per[i].detail],
          moisture_factor |-> moisture.factor,
          moisture_lookup |-> moisture.lookup]

TonnageAggregate(samples, quality_grade, final_grade, moisture, per) ==
    TonnageResult(samples, quality_grade, final_grade, moisture, per,
        Mean(RSum([i \in DOMAIN samples |-> per[i].tons_adj]), Len(samples)))

TonnageFromFactors(samples, quality_grade, final_grade, moisture) ==
    TonnageAggregate(samples, quality_grade, final_grade, moisture,
        [i \in DOMAIN samples |->
            TonnageSample(samples[i], moisture.factor, QualityFactor(final_grade))])

\* a tonnage calculation that reads the chart before line 568 has seeded it
calculate_tonnage_method_seed_late(db, samples, moisture_pct, visual_damage_pct, quality_grade, pick) ==
    [out |-> TonnageFromFactors(samples, quality_grade,
                 IF quality_grade # "" THEN quality_grade
                 ELSE AutoGrade(moisture_pct, visual_damage_pct),
                 FactorOrDefault(db, "exhibit21_silageMoisture", moisture_pct, "factor", pick)),
     db |-> seed_exhibit_21(db)]

\* quality_grade = "" stands for None; the store is seeded with exhibit 21
\* and committed before anything can raise
calculate_tonnage_method(db, samples, moisture_pct, visual_damage_pct, quality_grade, pick) ==
    [out |-> TonnageFromFactors(samples, quality_grade,
                 IF quality_grade # "" THEN quality_grade
                 ELSE AutoGrade(moisture_pct, visual_damage_pct),
                 FactorOrDefault(seed_exhibit_21(db), "exhibit21_silageMoisture",
                                 moisture_pct, "factor", pick)),
     db |-> seed_exhibit_21(db)]

----------------------------------------------------------------------------
(* CalculationService.calculate_maturity_line_weight                       *)

\* str.lower() on the stage names a request carries
Lower(stage) ==
    CASE stage = "R3" -> "r3"
      [] stage = "R4" -> "r4"
      [] stage = "R5" -> "r5"
      [] stage = "Milk" -> "milk"
      [] stage = "Dough" -> "dough"
      [] stage = "Dent" -> "dent"
      [] OTHER -> stage

\* lines 507-518
DevelopmentFactor(growth_stage, maturity_pct) ==
    IF Lower(growth_stage) \in {"r3", "milk"} THEN Dec(45, 100)
    ELSE IF Lower(growth_stage) \in {"r4", "dough"} THEN Dec(70, 100)
    ELSE IF Lower(growth_stage) \in {"r5", "dent"}
    THEN (IF RGt(maturity_pct, Zero)
          THEN RAdd(Dec(75, 100), RMul(RDiv(maturity_pct, Hundred), Dec(25, 100)))
          ELSE Dec(85, 100))
    ELSE Dec(5, 10)

\* lines 520-527: projected weight, shelled at 80%, 56 lbs a bushel
ProjectedBushels(weight_lbs, development_factor) ==
    RDiv(RMul(IF RGt(development_factor, Zero) THEN RDiv(weight_lbs, development_factor)
              ELSE Zero,
              Dec(8, 10)),
         R(56))

\* the loop body, lines 491-538
MaturitySample(sample, growth_stage) ==
    IF sample.sample_area_acres = Zero
    THEN [raised |-> "ZeroDivisionError", projected |-> Zero, detail |-> <<>>]
    ELSE [raised |-> "",
          projected |->
              RDiv(ProjectedBushels(sample.weight_lbs,
                       DevelopmentFactor(growth_stage, sample.maturity_line_position)),
                   sample.sample_area_acres),
          detail |->
              [sample_number |-> sample.sample_number,
               current_weight_lbs |-> sample.weight_lbs,
               maturity_line_pct |-> sample.maturity_line_position,
               development_factor_used |->
                   RRound(DevelopmentFactor(growth_stage, sample.maturity_line_position), 100),
               projected_yield_bu_acre |->
                   RRound(RDiv(ProjectedBushels(sample.weight_lbs,
                                   DevelopmentFactor(growth_stage,
                                                     sample.maturity_line_position)),
                               sample.sample_area_acres), 10)]]

\* lines 540-549
MaturityResult(samples, growth_stage, per) ==
    IF FirstRaised(per) # ""
    THEN [raised |-> FirstRaised(per), method |-> "maturity_line_weight"]
    ELSE [raised |-> "",
          method |-> "maturity_line_weight",
          growth_stage |-> growth_stage,
          avg_maturity_line_position |->
              Mean(RSum([i \in DOMAIN samples |-> per[i].detail.maturity_line_pct]),
                   Len(samples)),
          projected_yield_bu_acre |->
              RRound(Mean(RSum([i \in DOMAIN samples |-> per[i].projected]), Len(samples)), 10),
          current_development_pct |->
              RRound(RMul(Mean(RSum([i \in DOMAIN samples |->
                                        per[i].detail.development_factor_used]),
                               Len(samples)), Hundred), 10),
          sample_details |-> [i \in DOMAIN samples |-> per[i].detail]]

calculate_maturity_line_weight(samples, growth_stage) ==
    MaturityResult(samples, growth_stage,
        [i \in DOMAIN samples |-> MaturitySample(samples[i], growth_stage)])

----------------------------------------------------------------------------
(* CalculationService.calculate_stage_modification                         *)

\* int(x)
Trunc(a) == IF a[1] >= 0 THEN a[1] \div a[2] ELSE -((-a[1]) \div a[2])

\* lines 700-723
StageOfDays(sd) ==
    IF RLt(sd, R(15)) THEN <<"VE-V2", "Emergence">>
    ELSE IF RLt(sd, R(30)) THEN <<"V3-V5", "7thLeaf">>
    ELSE IF RLt(sd, R(45)) THEN <<"V6-V8", "8thLeaf">>
    ELSE IF RLt(sd, R(60)) THEN <<"V9-V12", "10thLeaf">>
    ELSE IF RLt(sd, R(75)) THEN <<"VT (Tassel)", "tasseled">>
    ELSE IF RLt(sd, R(90)) THEN <<"R1-R2 (Silk/Blister)", "Silked">>
    ELSE IF RLt(sd, R(105)) THEN <<"R3-R4 (Milk/Dough)", "Milk">>
    ELSE <<"R5+ (Dent/Mature)", "Mature">>

\* lines 725-729
StageModResult(standard_days_equiv) ==
    [raised |-> "",
     adjusted_growth_stage |-> StageOfDays(standard_days_equiv)[1],
     standard_equivalent_days |-> Trunc(standard_days_equiv),
     lookup_table_stage |-> StageOfDays(standard_days_equiv)[2]]

\* The two float operations of lines 686 and 689.  factor = 120.0 /
\* float(maturity_days) is the double nearest to the quotient, and
\* days_from_planting * factor is the double nearest to that product, so the
\* result can sit one spacing of doubles away from days * 120 / maturity.
\* The mantissa has 53 bits; the remainders below are computed modulo
\* maturity_days, so no large number is formed.

RECURSIVE Log2Floor(_, _)
\* floor(log2(n / d)) for n, d > 0
Log2Floor(n, d) ==
    IF n >= 2 * d THEN 1 + Log2Floor(n, 2 * d)
    ELSE IF n < d THEN Log2Floor(2 * n, d) - 1
    ELSE 0

RECURSIVE Pow2Mod(_, _)
Pow2Mod(k, m) == IF k = 0 THEN 1 % m ELSE (2 * Pow2Mod(k - 1, m)) % m

RECURSIVE Pow2(_)
Pow2(k) == IF k = 0 THEN 1 ELSE 2 * Pow2(k - 1)

IsPow2(x) == \E k \in 0..Log2Floor(x, 1) : Pow2(k) = x

\* the remainder of 120 * 2^k / maturity_days, k = 52 - floor(log2(120/m)):
\* what the 53-bit quotient leaves out
FactorRemainder(m) == ((120 % m) * Pow2Mod(52 - Log2Floor(120, m), m)) % m

\* factor - 120/m, in units of 1 / (m * 2^k): round to nearest
FactorError(m) ==
    IF 2 * FactorRemainder(m) < m THEN -FactorRemainder(m) ELSE m - FactorRemainder(m)

\* With x = d * 120 / m an integer (a double), d * factor is x plus
\* P = d * FactorError(m) / (m * 2^sh) spacings, sh = floor(log2 x) -
\* floor(log2 (120/m)) >= 0; the product rounds to the next double above when
\* P > 1/2 and to the next one below when P < -1/2 (P < -1/4 at a power of
\* two, where the spacing below is half), ties going to x.
ProductNudgeAt(d, m, x, sh) ==
    IF 2 * d * FactorError(m) > m * Pow2(sh) THEN 1
    ELSE IF (IF IsPow2(x) THEN 4 ELSE 2) * d * FactorError(m) < -(m * Pow2(sh)) THEN -1
    ELSE 0

\* -1, 0 or 1: where the float product lies relative to d * 120 / m.  When
\* the exact value is not an integer the float differs from it by less than
\* its distance to any integer, and is taken as exact.
ProductNudge(d, m) ==
    IF d = 0 \/ (d * 120) % m # 0 THEN 0
    ELSE ProductNudgeAt(d, m, (d * 120) \div m,
                        Log2Floor((d * 120) \div m, 1) - Log2Floor(120, m))

\* stands for one spacing of doubles (2^-47 near 60): any amount below
\* 1/maturity_days gives the same comparisons and the same int()
Spacing == <<1, 1024>>

\* lines 686-689: standard_days_equiv
StandardDaysEquiv(days_from_planting, maturity_days) ==
    RAdd(RDiv(R(days_from_planting * 120), R(maturity_days)),
         RMul(R(ProductNudge(days_from_planting, maturity_days)), Spacing))

calculate_stage_modification(days_from_planting, maturity_days) ==
    IF maturity_days = 0 THEN [raised |-> "ZeroDivisionError"]
    ELSE StageModResult(StandardDaysEquiv(days_from_planting, maturity_days))

----------------------------------------------------------------------------
(* CalculationService.calculate_replanting_analysis                        *)

\* an analysis that replants on a tie
calculate_replanting_analysis_on_tie(normal_yield, price, share, stand_pct, replant_cost, replant_factor) ==
    LET value_keep == RMul(RMul(RMul(normal_yield, RDiv(stand_pct, Hundred)), price), share)
        net_value_replant ==
            RSub(RMul(RMul(RMul(normal_yield, replant_factor), price), share), replant_cost)
    IN  [raised |-> "",
         recommendation |-> IF RGe(net_value_replant, value_keep) THEN "REPLANT" ELSE "KEEP",
         keep_projected_value |-> RRound(value_keep, 100),
         replant_projected_value |-> RRound(net_value_replant, 100),
         replanting_payment_amount |-> RRound(RMul(RMul(R(8), price), share), 100),
         breakeven_yield_diff |->
             RRound(IF RGt(price, Zero) THEN RDiv(replant_cost, price) ELSE Zero, 10)]

calculate_replanting_analysis(normal_yield, price, share, stand_pct, replant_cost, replant_factor) ==
    LET yield_keep == RMul(normal_yield, RDiv(stand_pct, Hundred))
        value_keep == RMul(RMul(yield_keep, price), share)
        yield_replant == RMul(normal_yield, replant_factor)
        gross_value_replant == RMul(RMul(yield_replant, price), share)
        net_value_replant == RSub(gross_value_replant, replant_cost)
        is_replant_economical == RGt(net_value_replant, value_keep)
        payment_amount == RMul(RMul(R(8), price), share)
        breakeven_bu == IF RGt(price, Zero) THEN RDiv(replant_cost, price) ELSE Zero
    IN  [raised |-> "",
         recommendation |-> IF is_replant_economical THEN "REPLANT" ELSE "KEEP",
         keep_projected_value |-> RRound(value_keep, 100),
         replant_projected_value |-> RRound(net_value_replant, 100),
         replanting_payment_amount |-> RRound(payment_amount, 100),
         breakeven_yield_diff |-> RRound(breakeven_bu, 10)]

----------------------------------------------------------------------------
(* AssessmentOrchestrator._determine_primary_method                        *)

PerilType == {"HAIL", "DROUGHT", "WIND", "DISEASE", "FROST", "FLOOD"}

GrowthStage ==
    {"Emergence", "VE-V2", "V3-V5", "V6-V8", "V9-V12", "VT",
     "R1", "R2", "R3", "R4", "R5", "Mature"}

early_stages == {"Emergence", "VE-V2", "V3-V5", "V6-V8"}
mid_stages == {"V9-V12", "VT", "R1"}
late_reproductive_stages == {"R4", "R5", "Mature"}

\* a selection whose mid-season rule forgets the peril
determine_primary_method_any_peril(peril, stage) ==
    IF stage \in early_stages
    THEN (IF peril = "HAIL" THEN "HAIL_DAMAGE" ELSE "STAND_REDUCTION")
    ELSE IF stage \in mid_stages THEN "HAIL_DAMAGE"
    ELSE IF stage \in late_reproductive_stages THEN "WEIGHT_METHOD"
    ELSE "STAND_REDUCTION"

determine_primary_method(peril, stage) ==
    IF stage \in early_stages
    THEN (IF peril = "HAIL" THEN "HAIL_DAMAGE" ELSE "STAND_REDUCTION")
    ELSE IF stage \in mid_stages /\ peril = "HAIL" THEN "HAIL_DAMAGE"
    ELSE IF stage \in late_reproductive_stages THEN "WEIGHT_METHOD"
    ELSE "STAND_REDUCTION"

----------------------------------------------------------------------------
(* ValidationEngine (backend/app/services/validation.py)                   *)
(*                                                                         *)
(* A flag keeps check_type and status, the fixed words of its message, and *)
(* the sample index or point count the message names; the CV and Z figures *)
(* the message prints are left out.  std_dev = sqrt(variance) is never     *)
(* formed: each comparison with it is made between squares.                *)

Flag(check_type, status, message, number) ==
    [check_type |-> check_type, status |-> status, message |-> message, number |-> number]

\* lines 23-31
MetricKey(method) ==
    IF method = "WEIGHT_METHOD" THEN "yield_kg_ha_adj"
    ELSE IF method = "HAIL_DAMAGE" THEN "total_sample_loss"
    ELSE ""

\* line 35: [s.get(key, 0.0) for s in samples if key in s]
RECURSIVE MetricValues(_, _)
MetricValues(samples, key) ==
    IF samples = <<>> THEN <<>>
    ELSE IF key \in DOMAIN Head(samples)
    THEN <<Head(samples)[key]>> \o MetricValues(Tail(samples), key)
    ELSE MetricValues(Tail(samples), key)

Square(a) == RMul(a, a)

\* line 46
Variance(values, mean) ==
    RDiv(RSum([i \in DOMAIN values |-> Square(RSub(values[i], mean))]), R(Len(values)))

\* std_dev / mean < bound, for bound > 0 and mean # 0
CvBelow(variance, mean, bound) ==
    IF RLt(mean, Zero) THEN TRUE ELSE RLt(variance, Square(RMul(bound, mean)))

\* std_dev / mean > bound, for bound > 0 and mean # 0
CvAbove(variance, mean, bound) ==
    RGt(mean, Zero) /\ RGt(variance, Square(RMul(bound, mean)))

\* lines 73-75: std_dev > 0 and abs(val - mean) / std_dev > 2.5
IsOutlier(val, mean, variance) ==
    RGt(variance, Zero) /\ RGt(Square(RSub(val, mean)), RMul(Dec(625, 100), variance))

\* lines 72-81, in the order of the values
OutlierFlags(values, mean, variance) ==
    LET hit == SelectSeq([i \in DOMAIN values |-> i],
                         LAMBDA i : IsOutlier(values[i], mean, variance))
    IN  [k \in DOMAIN hit |-> Flag("outlier", "FAIL", "is a statistical outlier", hit[k])]

\* a uniformity check that counts five samples as enough
UniformFlags_from_five(samples, variance, mean) ==
    IF CvBelow(variance, mean, Dec(5, 100)) /\ Len(samples) >= 5
    THEN <<Flag("statistical", "WARNING", "Data is suspiciously uniform (CV < 5%)", 0)>>
    ELSE <<>>

\* lines 52-58
UniformFlags(samples, variance, mean) ==
    IF CvBelow(variance, mean, Dec(5, 100)) /\ Len(samples) > 5
    THEN <<Flag("statistical", "WARNING", "Data is suspiciously uniform (CV < 5%)", 0)>>
    ELSE <<>>

\* lines 62-68
VarianceFlags(variance, mean) ==
    IF CvAbove(variance, mean, Dec(40, 100))
    THEN <<Flag("statistical", "WARNING", "High variance detected", 0)>>
    ELSE <<>>

\* lines 50-83
StatsFlags(samples, values, mean, variance) ==
    UniformFlags(samples, variance, mean) \o VarianceFlags(variance, mean)
        \o OutlierFlags(values, mean, variance)

\* lines 43-46
StatsOnMean(samples, values, mean) ==
    IF mean = Zero THEN <<>>
    ELSE StatsFlags(samples, values, mean, Variance(values, mean))

\* lines 39-43
StatsOnValues(samples, values) ==
    IF values = <<>> THEN <<>>
    ELSE StatsOnMean(samples, values, RDiv(RSum(values), R(Len(values))))

validate_statistical_consistency(method, samples) ==
    IF Len(samples) < 3 THEN <<>>
    ELSE StatsOnValues(samples, MetricValues(samples, MetricKey(method)))

\* lines 93-101; result.get("avg_yield_kg_ha", 0)
validate_biological_plausibility(method, result) ==
    IF method = "WEIGHT_METHOD" /\ "avg_yield_kg_ha" \in DOMAIN result
          /\ RGt(result.avg_yield_kg_ha, R(18000))
    THEN <<Flag("biological", "WARNING", "exceeds regional biological maximums", 0)>>
    ELSE <<>>

\* math.ceil
Ceil(a) == -((-a[1]) \div a[2])

policy_min_samples_per_ha == Dec(5, 10)

\* lines 134-143
DensityFlags(field_area_ha, num_samples) ==
    IF RGt(field_area_ha, Zero)
          /\ RLt(RDiv(R(num_samples), field_area_ha), policy_min_samples_per_ha)
    THEN <<Flag("sufficiency", "WARNING", "Sampling density low",
                Ceil(RMul(field_area_ha, policy_min_samples_per_ha)))>>
    ELSE <<>>

\* lines 124-130
MinimumFlags(num_samples) ==
    IF num_samples < 3
    THEN <<Flag("sufficiency", "FAIL", "Insufficient samples. Minimum required is 3", 3)>>
    ELSE <<>>

\* a sufficiency check without the return of line 131
validate_sample_sufficiency_no_return(field_area_ha, num_samples) ==
    MinimumFlags(num_samples) \o DensityFlags(field_area_ha, num_samples)

validate_sample_sufficiency(field_area_ha, num_samples) ==
    IF num_samples < 3 THEN MinimumFlags(num_samples)
    ELSE DensityFlags(field_area_ha, num_samples)

----------------------------------------------------------------------------
(* SpatialService.generate_sampling_points                                 *)
(*                                                                         *)
(* Coordinates are integers on a fine grid (the floats random.uniform      *)
(* draws); round(x, 7) keeps a multiple of RoundStep.  The field is the    *)
(* rectangle 0..LatMax by 0..LngMax, so its bounding box is itself, and    *)
(* the haversine distance at field scale is the planar distance on the     *)
(* grid, compared by squares.                                              *)

RoundStep == 3
AttemptsPerSample == 100
LatMax == 1
LngMax == 6
MaxMinSamples == 2

\* round(c, 7): the nearest multiple of RoundStep, ties to the even multiple
Round7(c) ==
    LET q == c \div RoundStep
        r == c % RoundStep
    IN  IF 2 * r > RoundStep \/ (2 * r = RoundStep /\ q % 2 = 1)
        THEN (q + 1) * RoundStep ELSE q * RoundStep

\* _calculate_distance, squared
Distance2(lat1, lng1, lat2, lng2) ==
    (lat2 - lat1) * (lat2 - lat1) + (lng2 - lng1) * (lng2 - lng1)

\* ST_Contains(ST_Buffer(boundary, -edge_buffer), ST_Point(lng, lat))
InsideCheck(edge_buffer, lat, lng) ==
    /\ edge_buffer <= lat /\ lat <= LatMax - edge_buffer
    /\ edge_buffer <= lng /\ lng <= LngMax - edge_buffer

\* lines 132-140: the candidate against the points accepted so far
TooClose(pts, min_distance, lat, lng) ==
    \E i \in DOMAIN pts :
        Distance2(lat, lng, pts[i].lat, pts[i].lng) < min_distance * min_distance

\* lines 163-170: the appended point; `inside_result` remembers what the
\* containment query of lines 121-126 answered for the candidate
NewPoint(pts, edge_buffer, lat, lng) ==
    [sample_number |-> Len(pts) + 1, lat |-> Round7(lat), lng |-> Round7(lng),
     inside_result |-> InsideCheck(edge_buffer, lat, lng)]

SamplingRequests ==
    [min_samples : 0..MaxMinSamples, edge_buffer : {0, 1}, min_distance : {2, 4}]

NoPlan == [min_samples |-> 0, edge_buffer |-> 0, min_distance |-> 0]

\* lines 98-101: the call is made, the loop is about to start
GenerateSamplingPoints ==
    /\ phase = "idle"
    /\ \E request \in SamplingRequests : plan' = request
    /\ points' = <<>>
    /\ attempts' = 0
    /\ phase' = "loop"
    /\ UNCHANGED <<store, last, updates, calls, claims>>

\* lines 103-172: one iteration of the while loop
LoopIteration ==
    /\ phase = "loop"
    /\ Len(points) < plan.min_samples
    /\ attempts < plan.min_samples * AttemptsPerSample
    /\ \E candidate_lat \in 0..LatMax, candidate_lng \in 0..LngMax :
        points' =
            IF ~InsideCheck(plan.edge_buffer, candidate_lat, candidate_lng) THEN points
            ELSE IF TooClose(points, plan.min_distance, candidate_lat, candidate_lng)
            THEN points
            ELSE Append(points, NewPoint(points, plan.edge_buffer, candidate_lat, candidate_lng))
    /\ attempts' = attempts + 1
    /\ UNCHANGED <<store, last, updates, phase, plan, calls, claims>>

\* lines 174-180
RaiseInsufficientPoints ==
    /\ phase = "loop"
    /\ ~(Len(points) < plan.min_samples /\ attempts < plan.min_samples * AttemptsPerSample)
    /\ Len(points) < plan.min_samples
    /\ phase' = "raised"
    /\ UNCHANGED <<store, last, updates, plan, points, attempts, calls, claims>>

\* a return that does not look at the length of the list
ReturnPoints_short ==
    /\ phase = "loop"
    /\ ~(Len(points) < plan.min_samples /\ attempts < plan.min_samples * AttemptsPerSample)
    /\ phase' = "returned"
    /\ UNCHANGED <<store, last, updates, plan, points, attempts, calls, claims>>

\* line 182
ReturnPoints ==
    /\ phase = "loop"
    /\ ~(Len(points) < plan.min_samples /\ attempts < plan.min_samples * AttemptsPerSample)
    /\ ~(Len(points) < plan.min_samples)
    /\ phase' = "returned"
    /\ UNCHANGED <<store, last, updates, plan, points, attempts, calls, claims>>

\* the caller has the points, or the error
SamplerDone ==
    /\ phase \in {"returned", "raised"}
    /\ phase' = "idle"
    /\ plan' = NoPlan
    /\ points' = <<>>
    /\ attempts' = 0
    /\ UNCHANGED <<store, last, updates, calls, claims>>

----------------------------------------------------------------------------
(* Requests: the inputs the model draws                                    *)

MaxSamples == 2
MaxUpdates == 1
MaxCallers == 2
MaxClaims == 3

\* the callers whose calculator invocations may run side by side
Callers == 1..MaxCallers

\* a caller with no invocation running
NoCall == [pc |-> "idle"]

\* an empty claims table
NoClaims == [rows |-> {}, issued |-> 0]

SeqsUpTo(S, n) == UNION { [1..k -> S] : k \in 0..n }

\* a list of at most MaxSamples measurements, numbered in order
Numbered(S) ==
    { [i \in DOMAIN s |-> [f \in DOMAIN s[i] \cup {"sample_number"} |->
                              IF f = "sample_number" THEN i ELSE s[i][f]]] :
        s \in SeqsUpTo(S, MaxSamples) }

\* the database's row order matters only to an unfiltered query
Picks(stage_column) == IF Truthy(stage_column) THEN {"low"} ELSE {"low", "high"}

StandMeasurements ==
    { [surviving_plants |-> n, length_measured_m |-> R(10), row_width_m |-> Dec(9, 10)] :
        n \in {0, 20, 27, 36, 45} }
    \cup {[surviving_plants |-> 36, length_measured_m |-> Zero, row_width_m |-> Dec(9, 10)]}

StandStages == {"8thLeaf", "emergence", "7thLeaf", "tasseled", "mature", ""}

HailMeasurement(orig, destroyed, defol, stalk, gp, direct) ==
    [original_stand_count |-> orig, destroyed_plants |-> destroyed,
     percent_defoliation |-> defol, stalk_damage_severity |-> stalk,
     growing_point_damage_pct |-> gp, ear_damage_pct |-> Zero,
     direct_damage_pct |-> direct]

HailMeasurements ==
    { HailMeasurement(40, 4, R(50), "moderate", R(5), R(2)),
      HailMeasurement(40, 13, Zero, "none", Zero, Zero),
      HailMeasurement(40, 0, R(75), "light", Zero, Zero),
      HailMeasurement(40, 40, R(100), "severe", R(50), R(60)),
      HailMeasurement(40, 4, Zero, "none", Zero, R(-50)),
      HailMeasurement(0, 5, Zero, "none", Zero, Zero) }

HailStages == {"8thLeaf", "7thLeaf", "tasseled", "mature", ""}

WeightMeasurement(w, area, fm, dk) ==
    [weight_lbs |-> w, sample_area_acres |-> area, foreign_material_pct |-> fm,
     damaged_kernels_pct |-> dk, broken_kernels_pct |-> Zero, heat_damage_pct |-> Zero]

WeightMeasurements ==
    { WeightMeasurement(R(50), Dec(1, 100), Zero, Zero),
      WeightMeasurement(R(70), Dec(1, 100), R(2), R(1)),
      WeightMeasurement(R(50), Zero, Zero, Zero) }

MoistureInputs == {None, R(15), Dec(225, 10), Dec(101, 10), R(40)}
TestWeightInputs == {None, R(56), Dec(545, 10), R(60)}

TonnageMeasurements ==
    { [fresh_weight_lbs |-> R(20), sample_area_acres |-> Dec(1, 1000)],
      [fresh_weight_lbs |-> Zero, sample_area_acres |-> Dec(1, 1000)],
      [fresh_weight_lbs |-> R(20), sample_area_acres |-> Zero] }

SilageMoistureInputs == {R(65), Dec(725, 10), R(85)}

LookupQueries ==
    { <<"exhibit11_standReduction", "8thLeaf">>, <<"exhibit11_standReduction", "">>,
      <<"exhibit11_standReduction", NoStage>>, <<"exhibit12_standReduction", "tasseled">>,
      <<"exhibit13_hailStandReduction", "7thLeaf">>, <<"exhibit15_leafLoss", "10thLeaf">>,
      <<"exhibit15_leafLoss", "8thLeaf">>,
      <<"exhibit23_moistureAdjustment", "moisture_factor">>,
      <<"exhibit24_testWeightPack", "factor">> }

LookupInputs ==
    { Zero, R(10), Dec(101, 10), Dec(125, 10), R(15), R(30), Dec(455, 10), R(50),
      R(55), R(75), R(100), R(110) }

MaturityMeasurements ==
    { [weight_lbs |-> R(50), sample_area_acres |-> Dec(1, 100), maturity_line_position |-> Zero],
      [weight_lbs |-> R(50), sample_area_acres |-> Dec(1, 100), maturity_line_position |-> R(50)],
      [weight_lbs |-> R(50), sample_area_acres |-> Zero, maturity_line_position |-> Zero] }

MaturityStages == {"R3", "dough", "R5", "silked"}

StageModDays == {0, 10, 45, 55, 100}

StageModInputs == [days_from_planting : StageModDays, maturity_days : {90, 110, 120, 0}]

AdminUpdates ==
    { <<"exhibit11_standReduction", R(100), "8thLeaf", R(150)>>,
      <<"exhibit23_moistureAdjustment", R(15), "moisture_factor", Dec(9995, 10000)>>,
      <<"exhibit13_hailStandReduction", R(50), "", R(40)>> }

ReplantInputs ==
    [normal_yield : {R(150), R(100)}, price : {R(4), Dec(3337, 1000), Zero}, share : {One, Dec(1, 2)},
     stand_pct : {R(60), R(50)}, replant_cost : {R(50), R(160), R(80)},
     replant_factor : {Dec(9, 10)}]

----------------------------------------------------------------------------
(* Actions: one per operation; a request is answered before the next one   *)

Idle == [op |-> "idle", args |-> <<>>, out |-> <<>>]

\* POST /seed-tables calls seed_lookup_tables twice
SeedLookupTables ==
    /\ last.op = "idle"
    /\ store' = seed_lookup_tables(seed_lookup_tables(store))
    /\ last' = [op |-> "seed_lookup_tables", args |-> <<>>, out |-> [raised |-> ""]]
    /\ UNCHANGED <<updates, phase, plan, points, attempts, calls, claims>>

UpdateLookupValue ==
    /\ last.op = "idle"
    /\ updates < MaxUpdates
    /\ \E u \in AdminUpdates :
        LET r == update_lookup_value(store, u[1], u[2], u[3], u[4])
        IN  /\ store' = r.db
            /\ last' = [op |-> "update_lookup_value", args |-> u, out |-> [raised |-> r.raised]]
    /\ updates' = updates + 1
    /\ UNCHANGED <<phase, plan, points, attempts, calls, claims>>

GetLookupValue ==
    /\ last.op = "idle"
    /\ \E q \in LookupQueries, x \in LookupInputs :
        \E pick \in Picks(q[2]) :
            last' = [op |-> "get_lookup_value",
                     args |-> [table_name |-> q[1], input_value |-> x, stage_column |-> q[2]],
                     out |-> get_lookup_value(store, q[1], x, q[2], pick)]
    /\ UNCHANGED <<store, updates, phase, plan, points, attempts, calls, claims>>

CalculateStandReduction ==
    /\ last.op = "idle"
    /\ \E samples \in Numbered(StandMeasurements), growth_stage \in StandStages :
        \E pick \in Picks(growth_stage) :
            last' = [op |-> "calculate_stand_reduction",
                     args |-> [samples |-> samples, growth_stage |-> growth_stage,
                               normal_pop |-> 40000],
                     pick |-> pick,
                     out |-> calculate_stand_reduction(store, samples, growth_stage, 40000, pick)]
    /\ UNCHANGED <<store, updates, phase, plan, points, attempts, calls, claims>>

CalculateHailDamage ==
    /\ last.op = "idle"
    /\ \E samples \in Numbered(HailMeasurements), growth_stage \in HailStages :
        \E pick \in Picks(growth_stage) :
            LET r == calculate_hail_damage(store, samples, growth_stage, pick)
            IN  /\ last' = [op |-> "calculate_hail_damage",
                            args |-> [samples |-> samples, growth_stage |-> growth_stage],
                            pick |-> pick,
                            out |-> r.out]
                /\ store' = r.db
    /\ UNCHANGED <<updates, phase, plan, points, attempts, calls, claims>>

CalculateWeightMethod ==
    /\ last.op = "idle"
    /\ \E samples \in Numbered(WeightMeasurements),
          moisture_pct \in MoistureInputs, test_weight \in TestWeightInputs :
            last' = [op |-> "calculate_weight_method",
                     args |-> [samples |-> samples, moisture_pct |-> moisture_pct,
                               test_weight |-> test_weight],
                     out |-> calculate_weight_method(store, samples, moisture_pct,
                                                     test_weight, "low")]
    /\ UNCHANGED <<store, updates, phase, plan, points, attempts, calls, claims>>

CalculateTonnageMethod ==
    /\ last.op = "idle"
    /\ \E samples \in Numbered(TonnageMeasurements), moisture_pct \in SilageMoistureInputs,
          visual_damage_pct \in {Zero, R(30)}, quality_grade \in {"", "good"} :
            LET r == calculate_tonnage_method(store, samples, moisture_pct,
                                              visual_damage_pct, quality_grade, "low")
            IN  /\ last' = [op |-> "calculate_tonnage_method",
                            args |-> [samples |-> samples, moisture_pct |-> moisture_pct,
                                      visual_damage_pct |-> visual_damage_pct,
                                      quality_grade |-> quality_grade],
                            out |-> r.out]
                /\ store' = r.db
    /\ UNCHANGED <<updates, phase, plan, points, attempts, calls, claims>>

CalculateReplantingAnalysis ==
    /\ last.op = "idle"
    /\ \E a \in ReplantInputs :
        last' = [op |-> "calculate_replanting_analysis",
                 args |-> a,
                 out |-> calculate_replanting_analysis(a.normal_yield, a.price, a.share,
                             a.stand_pct, a.replant_cost, a.replant_factor)]
    /\ UNCHANGED <<store, updates, phase, plan, points, attempts, calls, claims>>

CalculateMaturityLineWeight ==
    /\ last.op = "idle"
    /\ \E samples \in Numbered(MaturityMeasurements), growth_stage \in MaturityStages :
        last' = [op |-> "calculate_maturity_line_weight",
                 args |-> [samples |-> samples, growth_stage |-> growth_stage],
                 out |-> calculate_maturity_line_weight(samples, growth_stage)]
    /\ UNCHANGED <<store, updates, phase, plan, points, attempts, calls, claims>>

CalculateStageModification ==
    /\ last.op = "idle"
    /\ \E a \in StageModInputs :
        last' = [op |-> "calculate_stage_modification",
                 args |-> a,
                 out |-> calculate_stage_modification(a.days_from_planting, a.maturity_days)]
    /\ UNCHANGED <<store, updates, phase, plan, points, attempts, calls, claims>>

DeterminePrimaryMethod ==
    /\ last.op = "idle"
    /\ \E peril \in PerilType, stage \in GrowthStage :
        last' = [op |-> "determine_primary_method",
                 args |-> [peril |-> peril, stage |-> stage],
                 out |-> determine_primary_method(peril, stage)]
    /\ UNCHANGED <<store, updates, phase, plan, points, attempts, calls, claims>>

Calculators ==
    {"calculate_stand_reduction", "calculate_hail_damage", "calculate_weight_method",
     "calculate_maturity_line_weight", "calculate_tonnage_method",
     "calculate_replanting_analysis", "calculate_stage_modification"}

\* the calculator `op` called with the arguments a on the store db; `pick` is
\* the row order of the store
Invoke(op, a, pick, db) ==
    CASE op = "calculate_stand_reduction" ->
            [out |-> calculate_stand_reduction(db, a.samples, a.growth_stage, a.normal_pop, pick),
             db |-> db]
      [] op = "calculate_hail_damage" ->
            calculate_hail_damage(db, a.samples, a.growth_stage, pick)
      [] op = "calculate_weight_method" ->
            [out |-> calculate_weight_method(db, a.samples, a.moisture_pct, a.test_weight, pick),
             db |-> db]
      [] op = "calculate_maturity_line_weight" ->
            [out |-> calculate_maturity_line_weight(a.samples, a.growth_stage), db |-> db]
      [] op = "calculate_tonnage_method" ->
            calculate_tonnage_method(db, a.samples, a.moisture_pct, a.visual_damage_pct,
                                     a.quality_grade, pick)
      [] op = "calculate_replanting_analysis" ->
            [out |-> calculate_replanting_analysis(a.normal_yield, a.price, a.share,
                         a.stand_pct, a.replant_cost, a.replant_factor),
             db |-> db]
      [] op = "calculate_stage_modification" ->
            [out |-> calculate_stage_modification(a.days_from_planting, a.maturity_days),
             db |-> db]

RowOrder == IF "pick" \in DOMAIN last THEN last.pick ELSE "low"

\* the caller sends the same request again before anything else touches the
\* store; `again` is what the second call answers
RepeatCall ==
    /\ last.op \in Calculators
    /\ "again" \notin DOMAIN last
    /\ last' = [op |-> last.op, args |-> last.args, pick |-> RowOrder, out |-> last.out,
                again |-> Invoke(last.op, last.args, RowOrder, store).out]
    /\ store' = Invoke(last.op, last.args, RowOrder, store).db
    /\ UNCHANGED <<updates, phase, plan, points, attempts, calls, claims>>

\* the response is handed to the caller
Reply ==
    /\ last.op # "idle"
    /\ last' = Idle
    /\ UNCHANGED <<store, updates, phase, plan, points, attempts, calls, claims>>

Init ==
    /\ store = {}
    /\ last = Idle
    /\ updates = 0
    /\ phase = "idle"
    /\ plan = NoPlan
    /\ points = <<>>
    /\ attempts = 0
    /\ calls = [p \in Callers |-> NoCall]
    /\ claims = NoClaims

Next ==
    \/ SeedLookupTables
    \/ UpdateLookupValue
    \/ GetLookupValue
    \/ CalculateStandReduction
    \/ CalculateHailDamage
    \/ CalculateWeightMethod
    \/ CalculateTonnageMethod
    \/ CalculateReplantingAnalysis
    \/ CalculateMaturityLineWeight
    \/ CalculateStageModification
    \/ DeterminePrimaryMethod
    \/ Reply

Spec == Init /\ [][Next]_vars

\* the calculators, each request possibly sent a second time
NextRepeat ==
    \/ SeedLookupTables
    \/ CalculateStandReduction
    \/ CalculateHailDamage
    \/ CalculateWeightMethod
    \/ CalculateTonnageMethod
    \/ CalculateReplantingAnalysis
    \/ CalculateMaturityLineWeight
    \/ CalculateStageModification
    \/ RepeatCall
    \/ Reply

SpecRepeat == Init /\ [][NextRepeat]_vars

NextSampler ==
    \/ GenerateSamplingPoints
    \/ LoopIteration
    \/ RaiseInsufficientPoints
    \/ ReturnPoints
    \/ SamplerDone

SpecSampler == Init /\ [][NextSampler]_vars

\* a call that has started keeps running: the loop body, the raise and the
\* return are each taken when they are the statement the call stands at
SpecSamplerFair ==
    /\ SpecSampler
    /\ WF_vars(LoopIteration)
    /\ WF_vars(RaiseInsufficientPoints)
    /\ WF_vars(ReturnPoints)

----------------------------------------------------------------------------
(* The validation engine called on its own                                 *)

MaxValidated == 9
MaxCounted == 7

StatValues == {R(1), R(25), R(26), R(-25), Zero}

\* per-sample breakdowns of n samples carrying `key`: every value is `base`
\* but the one of sample k
Breakdowns(key) ==
    { [i \in 1..n |-> [f \in {"sample_number", key} |->
                          IF f = "sample_number" THEN i
                          ELSE IF i = k THEN odd ELSE base]] :
        n \in 0..MaxValidated, k \in 1..MaxValidated, base \in StatValues, odd \in StatValues }

FieldAreas == {Zero, R(-5), R(6), R(10), Dec(125, 10), R(20)}

ValidateStatisticalConsistency ==
    /\ last.op = "idle"
    /\ \E method \in {"WEIGHT_METHOD", "HAIL_DAMAGE", "STAND_REDUCTION"},
          key \in {"yield_kg_ha_adj", "total_sample_loss"} :
        \E samples \in Breakdowns(key) :
            last' = [op |-> "validate_statistical_consistency",
                     args |-> [method |-> method, samples |-> samples],
                     out |-> [raised |-> "",
                              flags |-> validate_statistical_consistency(method, samples)]]
    /\ UNCHANGED <<store, updates, phase, plan, points, attempts, calls, claims>>

ValidateSampleSufficiency ==
    /\ last.op = "idle"
    /\ \E field_area_ha \in FieldAreas, num_samples \in 0..MaxCounted :
        last' = [op |-> "validate_sample_sufficiency",
                 args |-> [field_area_ha |-> field_area_ha, num_samples |-> num_samples],
                 out |-> [raised |-> "",
                          flags |-> validate_sample_sufficiency(field_area_ha, num_samples)]]
    /\ UNCHANGED <<store, updates, phase, plan, points, attempts, calls, claims>>

NextValidation ==
    \/ ValidateStatisticalConsistency
    \/ ValidateSampleSufficiency
    \/ Reply

SpecValidation == Init /\ [][NextValidation]_vars

----------------------------------------------------------------------------
(* Calculator invocations running side by side                             *)
(*                                                                         *)
(* Each request has its own database session.  A seeding helper reads      *)
(* whether the table has a row, and only later adds the rows and commits;  *)
(* another session's commit can fall between the two.  The commit is       *)
(* subject to the unique_lookup_cell constraint of the lookup_tables       *)
(* relation.  The loop of a calculator is taken as one step: the tables it *)
(* reads are written by no calculator while it runs.                       *)

ConcurrentRequests ==
    { [op |-> "calculate_hail_damage", samples |-> samples, growth_stage |-> "8thLeaf"] :
        samples \in { <<>>, <<[sample_number |-> 1] @@ HailMeasurement(40, 4, R(50), "moderate", R(5), R(2))>> } }
    \cup
    { [op |-> "calculate_tonnage_method", samples |-> samples, moisture_pct |-> Dec(725, 10),
       visual_damage_pct |-> Zero, quality_grade |-> ""] :
        samples \in { <<[sample_number |-> 1, fresh_weight_lbs |-> R(20),
                         sample_area_acres |-> Dec(1, 1000)]>> } }

\* the rows a seeding helper adds
SeedRows(table_name) ==
    CASE table_name = "exhibit21_silageMoisture" -> Exhibit21
      [] table_name = "exhibit23_moistureAdjustment" -> Exhibit23
      [] table_name = "exhibit24_testWeightPack" -> Exhibit24

\* unique_lookup_cell refuses the commit of a row whose cell is taken
CellTaken(db, rows) ==
    \E e \in db, r \in rows :
        /\ e.table_name = r.table_name
        /\ e.input_value = r.input_value
        /\ e.stage_or_condition = r.stage_or_condition

\* the endpoint receives the request; tonnage seeds exhibit 21 first (line
\* 568), hail damage runs its loop first
BeginCall(p) ==
    /\ calls[p].pc = "idle"
    /\ \E request \in ConcurrentRequests :
        calls' = [calls EXCEPT ![p] =
                    [pc |-> IF request.op = "calculate_hail_damage" THEN "loop" ELSE "seed",
                     request |-> request,
                     start |-> store,
                     pending |-> IF request.op = "calculate_hail_damage" THEN <<>>
                                 ELSE <<"exhibit21_silageMoisture">>,
                     out |-> <<>>]]
    /\ UNCHANGED <<store, last, updates, phase, plan, points, attempts, claims>>

\* calculate_hail_damage, lines 253-346: the loop and the averages; the
\* seeding of lines 348-351 is still to come
HailLoopStep(p) ==
    /\ calls[p].pc = "loop"
    /\ calls' = [calls EXCEPT ![p].pc = "seed",
                              ![p].out = calculate_hail_damage(store, calls[p].request.samples,
                                             calls[p].request.growth_stage, "low").out,
                              ![p].pending = <<"exhibit23_moistureAdjustment",
                                               "exhibit24_testWeightPack">>]
    /\ UNCHANGED <<store, last, updates, phase, plan, points, attempts, claims>>

\* seed_exhibit_NN: `existing = db.execute(select ...).first(); if existing: return`
SeedCheck(p) ==
    /\ calls[p].pc = "seed"
    /\ calls[p].pending # <<>>
    /\ calls' = IF HasTable(store, Head(calls[p].pending))
                THEN [calls EXCEPT ![p].pending = Tail(calls[p].pending)]
                ELSE [calls EXCEPT ![p].pc = "insert"]
    /\ UNCHANGED <<store, last, updates, phase, plan, points, attempts, claims>>

\* seed_exhibit_NN: `db.add(...)` for every row, then `db.commit()`
SeedInsert(p) ==
    /\ calls[p].pc = "insert"
    /\ IF CellTaken(store, SeedRows(Head(calls[p].pending)))
       THEN /\ calls' = [calls EXCEPT ![p].pc = "raised",
                                      ![p].out = [raised |-> "IntegrityError"]]
            /\ store' = store
       ELSE /\ calls' = [calls EXCEPT ![p].pc = "seed",
                                      ![p].pending = Tail(calls[p].pending)]
            /\ store' = store \cup SeedRows(Head(calls[p].pending))
    /\ UNCHANGED <<last, updates, phase, plan, points, attempts, claims>>

\* calculate_tonnage_method, lines 570-624, once exhibit 21 has been seen to
TonnageLoopStep(p) ==
    /\ calls[p].pc = "seed"
    /\ calls[p].pending = <<>>
    /\ calls[p].request.op = "calculate_tonnage_method"
    /\ calls' = [calls EXCEPT ![p].pc = "returned",
                              ![p].out =
                                  TonnageFromFactors(calls[p].request.samples,
                                      calls[p].request.quality_grade,
                                      AutoGrade(calls[p].request.moisture_pct,
                                                calls[p].request.visual_damage_pct),
                                      FactorOrDefault(store, "exhibit21_silageMoisture",
                                          calls[p].request.moisture_pct, "factor", "low"))]
    /\ UNCHANGED <<store, last, updates, phase, plan, points, attempts, claims>>

\* calculate_hail_damage, lines 353-360
HailReturn(p) ==
    /\ calls[p].pc = "seed"
    /\ calls[p].pending = <<>>
    /\ calls[p].request.op = "calculate_hail_damage"
    /\ calls' = [calls EXCEPT ![p].pc = "returned"]
    /\ UNCHANGED <<store, last, updates, phase, plan, points, attempts, claims>>

\* the endpoint answers: the result, or HTTP 400 with the exception
EndCall(p) ==
    /\ calls[p].pc \in {"returned", "raised"}
    /\ calls' = [calls EXCEPT ![p] = NoCall]
    /\ UNCHANGED <<store, last, updates, phase, plan, points, attempts, claims>>

NextConcurrent ==
    \E p \in Callers :
        \/ BeginCall(p)
        \/ HailLoopStep(p)
        \/ SeedCheck(p)
        \/ SeedInsert(p)
        \/ TonnageLoopStep(p)
        \/ HailReturn(p)
        \/ EndCall(p)

SpecConcurrent == Init /\ [][NextConcurrent]_vars

----------------------------------------------------------------------------
(* EconomicStrategyEngine.compare_grain_vs_silage                          *)
(* (backend/app/services/economics.py)                                     *)

\* `x or 0`
OrZero(x) == IF x = None THEN Zero ELSE x

\* lines 24-28
GrainNet(yield_kg_ha, market) ==
    RSub(RMul(RDiv(yield_kg_ha, R(1000)), market.grain_price_per_tonne),
         OrZero(market.harvest_cost_per_ha))

\* lines 31-34
SilageNet(silage_tonnes_ha, market) ==
    RSub(RMul(silage_tonnes_ha, market.silage_price_per_tonne),
         RMul(OrZero(market.harvest_cost_per_ha), Dec(15, 10)))

\* lines 38-49; the rationale text is left out
Recommendation(strategy, gain) ==
    [recommended_strategy |-> strategy, financial_gain_estimate |-> RRound(gain, 100)]

\* a comparison that converts to silage on a tie
RecommendOnDiff_on_tie(diff) ==
    IF RGe(diff, Zero) THEN Recommendation("HARVEST_SILAGE", diff)
    ELSE Recommendation("HARVEST_GRAIN", RNeg(diff))

RecommendOnDiff(diff) ==
    IF RGt(diff, Zero) THEN Recommendation("HARVEST_SILAGE", diff)
    ELSE Recommendation("HARVEST_GRAIN", IF RLt(diff, Zero) THEN RNeg(diff) ELSE diff)

compare_grain_vs_silage(yield_kg_ha, silage_tonnes_ha, market) ==
    IF market = None \/ market.silage_price_per_tonne \in {None, Zero} THEN None
    ELSE RecommendOnDiff(RSub(SilageNet(silage_tonnes_ha, market),
                              GrainNet(yield_kg_ha, market)))

----------------------------------------------------------------------------
(* AssessmentOrchestrator (backend/app/services/orchestrator.py)           *)
(*                                                                         *)
(* A request is a record with exactly the fields the schema declares; a    *)
(* sample dict is a record with exactly the keys written into it.  Reading *)
(* an attribute the object does not have raises AttributeError, passing a  *)
(* keyword a function does not declare raises TypeError, and               *)
(* dict.get(key, default) gives the default for a key that is absent.      *)

\* d.get(key, default); `x or {}` makes an absent dict an empty one
Get(d, key, default) == IF key \in DOMAIN d THEN d[key] ELSE default

\* lines 144-166: the dict built for one sample
MapSample(s, method) ==
    CASE method = "STAND_REDUCTION" ->
            [sample_number |-> s.sample_number,
             surviving_plants |-> Get(s.counts, "surviving_plants", 0),
             length_measured_m |-> R(10)]
      [] method = "HAIL_DAMAGE" ->
            [sample_number |-> s.sample_number,
             original_stand_count |-> Get(s.counts, "original_stand", 40),
             destroyed_plants |-> Get(s.counts, "destroyed", 0),
             percent_defoliation |-> Get(s.damages, "defoliation", Zero),
             stalk_damage_severity |-> "none"]
      [] method = "WEIGHT_METHOD" ->
            [sample_number |-> s.sample_number,
             fresh_weight_kg |-> Get(s.weights, "fresh_weight", Zero),
             sample_area_m2 |-> R(10),
             foreign_material_pct |-> Get(s.damages, "foreign_material", Zero)]
      [] OTHER -> [sample_number |-> s.sample_number]

map_samples(samples, method) == [i \in DOMAIN samples |-> MapSample(samples[i], method)]

\* the keys each calculator reads from a sample, with the default of its
\* sample.get(key, default)
StandDefaults ==
    [surviving_plants |-> 0, length_measured_m |-> R(10), row_width_m |-> Dec(9, 10)]

HailDefaults ==
    [original_stand_count |-> 40, destroyed_plants |-> 0, percent_defoliation |-> Zero,
     stalk_damage_severity |-> "none", growing_point_damage_pct |-> Zero,
     ear_damage_pct |-> Zero, direct_damage_pct |-> Zero,
     length_measured_m |-> R(10), row_width_m |-> Dec(9, 10)]

WeightDefaults ==
    [weight_lbs |-> Zero, sample_area_acres |-> Dec(1, 100), foreign_material_pct |-> Zero,
     damaged_kernels_pct |-> Zero, broken_kernels_pct |-> Zero, heat_damage_pct |-> Zero]

TonnageDefaults == [fresh_weight_lbs |-> Zero, sample_area_acres |-> Dec(1, 1000)]

MethodDefaults(method) ==
    CASE method = "STAND_REDUCTION" -> StandDefaults
      [] method = "HAIL_DAMAGE" -> HailDefaults
      [] method = "WEIGHT_METHOD" -> WeightDefaults
      [] OTHER -> TonnageDefaults

\* what a calculator's loop sees of one sample dict: each key it reads, from
\* the dict when the dict has it and from the default otherwise
ReadSample(d, defaults) ==
    [f \in DOMAIN defaults \cup {"sample_number"} |->
        IF f \in DOMAIN d THEN d[f] ELSE defaults[f]]

ReadSamples(dicts, defaults) == [i \in DOMAIN dicts |-> ReadSample(dicts[i], defaults)]

\* calculations.py line 363-369: the parameters calculate_weight_method declares
WeightParameters == {"db", "samples", "row_width_m", "moisture_pct", "test_weight"}

\* lines 52-56: the keywords the orchestrator passes to it
WeightKeywords == {"moisture_pct", "test_weight_kg_hl"}

\* lines 39-62: the chosen calculator's result and the store as it leaves it.
\* _determine_primary_method never selects TONNAGE_METHOD, so lines 57-62 are
\* not reached and method_result stays {} for any other method.
ExecutePrimaryMethod(db, request, primary_method, sample_dicts, pick) ==
    CASE primary_method = "STAND_REDUCTION" ->
            [out |-> calculate_stand_reduction(db, ReadSamples(sample_dicts, StandDefaults),
                                               request.growth_stage, 40000, pick),
             db |-> db]
      [] primary_method = "HAIL_DAMAGE" ->
            calculate_hail_damage(db, ReadSamples(sample_dicts, HailDefaults),
                                  request.growth_stage, pick)
      [] primary_method = "WEIGHT_METHOD" ->
            IF WeightKeywords \subseteq WeightParameters
            THEN [out |-> calculate_weight_method(db,
                              ReadSamples(sample_dicts, WeightDefaults),
                              request.moisture_pct, request.test_weight_kg_hl, pick),
                  db |-> db]
            ELSE [out |-> [raised |-> "TypeError"], db |-> db]
      [] OTHER -> [out |-> [raised |-> ""], db |-> db]

\* lines 87-99: the three flag lists, in the order they are appended
AssessmentFlags(request, primary_method, method_result, field_size) ==
    (IF "sample_details" \in DOMAIN method_result
     THEN validate_statistical_consistency(primary_method, method_result.sample_details)
     ELSE <<>>)
    \o validate_sample_sufficiency(field_size, Len(request.samples))
    \o validate_biological_plausibility(primary_method, method_result)

\* lines 67-82: the silage estimate and the comparison, made when market data
\* came with the request and the method is WEIGHT_METHOD
NoEconomics(db) ==
    [invoked |-> FALSE, raised |-> "", yield_kg |-> Zero, tonnes_silage |-> Zero,
     recommendation |-> None, db |-> db]

\* lines 77-82
EconomicFromSilage(request, method_result, silage_res) ==
    IF silage_res.out.raised # ""
    THEN [invoked |-> FALSE, raised |-> silage_res.out.raised, yield_kg |-> Zero,
          tonnes_silage |-> Zero, recommendation |-> None, db |-> silage_res.db]
    ELSE [invoked |-> TRUE, raised |-> "",
          yield_kg |-> Get(method_result, "avg_yield_kg_ha", Zero),
          tonnes_silage |-> Get(silage_res.out, "tonnes_per_ha", Zero),
          recommendation |->
              compare_grain_vs_silage(Get(method_result, "avg_yield_kg_ha", Zero),
                                      Get(silage_res.out, "tonnes_per_ha", Zero),
                                      request.market_data),
          db |-> silage_res.db]

\* lines 72-75: the samples mapped for TONNAGE_METHOD, `moisture_pct or 65.0`
SilageEstimate(db, request, pick) ==
    calculate_tonnage_method(db,
        ReadSamples(map_samples(request.samples, "TONNAGE_METHOD"), TonnageDefaults),
        IF request.moisture_pct \in {None, Zero} THEN R(65) ELSE request.moisture_pct,
        Zero, "", pick)

EconomicAnalysis(db, request, primary_method, method_result, pick) ==
    IF request.market_data # None /\ primary_method = "WEIGHT_METHOD"
    THEN EconomicFromSilage(request, method_result, SilageEstimate(db, request, pick))
    ELSE NoEconomics(db)

\* lines 101-109
AssessmentResult(request, primary_method, sample_dicts, method_result, field_size, economic) ==
    [raised |-> "",
     primary_method_used |-> primary_method,
     calculated_loss_pct |-> Get(method_result, "loss_percentage", Zero),
     calculated_yield_kg_ha |->
         IF Get(method_result, "avg_yield_kg_ha", Zero) # Zero
         THEN method_result.avg_yield_kg_ha
         ELSE Get(method_result, "tonnes_per_ha", Zero),
     validation_flags |-> AssessmentFlags(request, primary_method, method_result, field_size),
     economic_recommendation |-> economic.recommendation,
     detailed_breakdown |-> method_result,
     sample_dicts |-> sample_dicts,
     method_result |-> method_result,
     economic |-> economic]

\* an exception leaves the call; sample_dicts, method_result and economic keep
\* what _map_samples, the calculator and the economic step did before it
AssessmentRaised(err, primary_method, sample_dicts, method_result, economic) ==
    [raised |-> err, primary_method_used |-> primary_method, sample_dicts |-> sample_dicts,
     method_result |-> method_result, economic |-> economic]

\* lines 84-109: line 94 reads request.field_area_ha
AssessmentAfterEconomics(request, primary_method, sample_dicts, method_result, economic) ==
    IF economic.raised # ""
    THEN [out |-> AssessmentRaised(economic.raised, primary_method, sample_dicts,
                                   method_result, economic),
          db |-> economic.db]
    ELSE IF "field_area_ha" \notin DOMAIN request
    THEN [out |-> AssessmentRaised("AttributeError", primary_method, sample_dicts,
                                   method_result, economic),
          db |-> economic.db]
    ELSE [out |-> AssessmentResult(request, primary_method, sample_dicts, method_result,
                      IF request.field_area_ha \notin {None, Zero}
                      THEN request.field_area_ha ELSE R(10),
                      economic),
          db |-> economic.db]

\* lines 64-109, after the calculator
AssessmentAfterMethod(db, request, primary_method, sample_dicts, r, pick) ==
    IF r.out.raised # ""
    THEN [out |-> AssessmentRaised(r.out.raised, primary_method, sample_dicts, r.out,
                                   NoEconomics(r.db)),
          db |-> r.db]
    ELSE AssessmentAfterEconomics(request, primary_method, sample_dicts, r.out,
             EconomicAnalysis(r.db, request, primary_method, r.out, pick))

AssessmentWithMethod(db, request, primary_method, sample_dicts, pick) ==
    AssessmentAfterMethod(db, request, primary_method, sample_dicts,
        ExecutePrimaryMethod(db, request, primary_method, sample_dicts, pick), pick)

perform_comprehensive_assessment(db, request, pick) ==
    AssessmentWithMethod(db, request,
        determine_primary_method(request.primary_peril, request.growth_stage),
        map_samples(request.samples,
            determine_primary_method(request.primary_peril, request.growth_stage)),
        pick)

\* AssessmentSampleInput: counts, weights and damages are optional dicts
AssessmentSampleInputs ==
    { [counts |-> [surviving_plants |-> 20], weights |-> None, damages |-> None],
      [counts |-> [original_stand |-> 40, destroyed |-> 10], weights |-> None,
       damages |-> [defoliation |-> R(50)]],
      [counts |-> None, weights |-> [fresh_weight |-> R(5)],
       damages |-> [foreign_material |-> R(2)]] }

MarketDatas ==
    { None,
      [grain_price_per_tonne |-> R(300), silage_price_per_tonne |-> R(50),
       harvest_cost_per_ha |-> Zero, transport_cost_per_tonne |-> Zero,
       drying_cost_per_tonne |-> Zero] }

\* ComprehensiveAssessmentRequest
AssessmentRequests ==
    { [primary_peril |-> peril, secondary_perils |-> <<>>, growth_stage |-> stage,
       measurement_date |-> "2024-03-01",
       field_context |-> [field_size_ha |-> R(10), crop_variety |-> None,
                          planting_date |-> None, expected_yield_kg_ha |-> None],
       market_data |-> market, samples |-> samples,
       moisture_pct |-> None, test_weight_kg_hl |-> None] :
        peril \in PerilType, stage \in GrowthStage, market \in MarketDatas,
        samples \in Numbered(AssessmentSampleInputs) }

\* POST /assessments/comprehensive
PerformComprehensiveAssessment ==
    /\ last.op = "idle"
    /\ \E request \in AssessmentRequests :
        \E pick \in Picks(request.growth_stage) :
            LET r == perform_comprehensive_assessment(store, request, pick)
            IN  /\ last' = [op |-> "perform_comprehensive_assessment",
                            args |-> request, pick |-> pick, out |-> r.out]
                /\ store' = r.db
    /\ UNCHANGED <<updates, phase, plan, points, attempts, calls, claims>>

NextAssessment ==
    \/ SeedLookupTables
    \/ PerformComprehensiveAssessment
    \/ Reply

SpecAssessment == Init /\ [][NextAssessment]_vars

----------------------------------------------------------------------------
(* The economic comparison called on its own                               *)

YieldEstimates == {Zero, R(1234), R(5000), R(8000)}

SilageEstimates == {Zero, R(20), R(30), R(45)}

Markets ==
    {None} \cup
    { [grain_price_per_tonne |-> g, silage_price_per_tonne |-> s, harvest_cost_per_ha |-> h,
       transport_cost_per_tonne |-> Zero, drying_cost_per_tonne |-> Zero] :
        g \in {R(300), Dec(15, 10)}, s \in {None, Zero, R(50)}, h \in {None, Zero, R(100)} }

CompareGrainVsSilage ==
    /\ last.op = "idle"
    /\ \E y \in YieldEstimates, t \in SilageEstimates, market \in Markets :
        last' = [op |-> "compare_grain_vs_silage",
                 args |-> [yield_kg_ha |-> y, silage_tonnes_ha |-> t, market |-> market],
                 out |-> compare_grain_vs_silage(y, t, market)]
    /\ UNCHANGED <<store, updates, phase, plan, points, attempts, calls, claims>>

NextEconomics ==
    \/ SeedLookupTables
    \/ CompareGrainVsSilage
    \/ Reply

SpecEconomics == Init /\ [][NextEconomics]_vars

----------------------------------------------------------------------------
(* Seeding, with a call that stops part way                                *)

\* seed_lookup_tables commits exhibit 11 at line 207, before it seeds the
\* hail charts in transactions of their own: a call the database fails at
\* line 210 leaves exhibit 11 committed and raises
SeedingStopped ==
    /\ last.op = "idle"
    /\ ~HasTable(store, "exhibit11_standReduction")
    /\ store' = store \cup Exhibit11
    /\ last' = [op |-> "seed_lookup_tables", args |-> <<>>,
                out |-> [raised |-> "OperationalError"]]
    /\ UNCHANGED <<updates, phase, plan, points, attempts, calls, claims>>

NextSeeding ==
    \/ SeedLookupTables
    \/ SeedingStopped
    \/ UpdateLookupValue
    \/ GetLookupValue
    \/ Reply

SpecSeeding == Init /\ [][NextSeeding]_vars

----------------------------------------------------------------------------
(* Claims (backend/app/api/v1/claims.py)                                   *)
(*                                                                         *)
(* A claim row keeps id, tenant_id, farm_id and claim_number; the fresh    *)
(* uuid4 of a new row is the next number not given out before.             *)

Tenants == {"tenant_a", "tenant_b"}

\* the farms, each with the tenant that owns it
FarmTenant == [farm_a |-> "tenant_a", farm_b |-> "tenant_b"]

\* datetime.now().year
year == 2026

\* line 44: the tenant's claims now in the table
TenantCount(db, tenant_id) == Cardinality({ c \in db.rows : c.tenant_id = tenant_id })

\* line 45: f"CLM-{year}-{count+1:05d}", one string per (year, count + 1)
ClaimNumber(count) == <<"CLM", year, count + 1>>

NextClaimNumber(db, tenant_id) == ClaimNumber(TenantCount(db, tenant_id))

\* lines 47-62: claim_number is unique=True, so the commit of a number that
\* a stored claim carries fails
InsertClaim(db, tenant_id, farm_id, claim_number) ==
    IF \E c \in db.rows : c.claim_number = claim_number
    THEN [db |-> db, raised |-> "IntegrityError", claim_number |-> claim_number]
    ELSE [db |-> [rows |-> db.rows \cup {[id |-> db.issued + 1, tenant_id |-> tenant_id,
                                          farm_id |-> farm_id,
                                          claim_number |-> claim_number]},
                  issued |-> db.issued + 1],
          raised |-> "", claim_number |-> claim_number]

create_claim(db, tenant_id, farm_id) ==
    IF FarmTenant[farm_id] # tenant_id
    THEN [db |-> db, raised |-> "HTTP404", claim_number |-> None]
    ELSE InsertClaim(db, tenant_id, farm_id, NextClaimNumber(db, tenant_id))

\* lines 139-153
delete_claim(db, tenant_id, claim_id) ==
    IF \E c \in db.rows : c.id = claim_id /\ c.tenant_id = tenant_id
    THEN [db |-> [db EXCEPT !.rows = { c \in db.rows : c.id # claim_id }], raised |-> ""]
    ELSE [db |-> db, raised |-> "HTTP404"]

CreateClaim ==
    /\ last.op = "idle"
    /\ claims.issued < MaxClaims
    /\ \E tenant_id \in Tenants, farm_id \in DOMAIN FarmTenant :
        LET r == create_claim(claims, tenant_id, farm_id)
        IN  /\ claims' = r.db
            /\ last' = [op |-> "create_claim",
                        args |-> [tenant_id |-> tenant_id, farm_id |-> farm_id],
                        out |-> [raised |-> r.raised, claim_number |-> r.claim_number],
                        before |-> claims.rows]
    /\ UNCHANGED <<store, updates, phase, plan, points, attempts, calls>>

DeleteClaim ==
    /\ last.op = "idle"
    /\ \E tenant_id \in Tenants, claim_id \in 1..MaxClaims :
        LET r == delete_claim(claims, tenant_id, claim_id)
        IN  /\ claims' = r.db
            /\ last' = [op |-> "delete_claim",
                        args |-> [tenant_id |-> tenant_id, claim_id |-> claim_id],
                        out |-> [raised |-> r.raised]]
    /\ UNCHANGED <<store, updates, phase, plan, points, attempts, calls>>

NextClaims ==
    \/ CreateClaim
    \/ DeleteClaim
    \/ Reply

SpecClaims == Init /\ [][NextClaims]_vars

----------------------------------------------------------------------------
(* Properties of the lookup resolver                                       *)

\* the (table_name, condition) series of a store
Series(db, t, c) == { e \in db : e.table_name = t /\ e.stage_or_condition = c }

\* the series the answered get_lookup_value call names
AskedSeries == Series(store, last.args.table_name, last.args.stage_column)

\* C1: for a store that satisfies the (table_name, input_value, condition)
\* uniqueness key and any stored entry (t, x, c), get_lookup_value(t, x, c)
\* returns exactly that entry's output_value: it is neither interpolated nor
\* rounded.
C1_ExactMatchReturnsStored ==
    (last.op = "get_lookup_value" /\ UniqueLookupCell(store)) =>
        \A e \in AskedSeries :
            e.input_value = last.args.input_value =>
                /\ last.out.raised = ""
                /\ last.out.value = e.output_value

\* a stored value with more than two decimals has been asked for and returned
C1_StoredValueReturned ==
    /\ last.op = "get_lookup_value"
    /\ \E e \in AskedSeries :
        /\ e.input_value = last.args.input_value
        /\ RRound(e.output_value, 100) # e.output_value
        /\ last.out.raised = ""
        /\ last.out.value = e.output_value

\* two stored points of one series with no stored point between them
Adjacent(series, lo, hi) ==
    /\ RLt(lo.input_value, hi.input_value)
    /\ ~\E m \in series :
            RLt(lo.input_value, m.input_value) /\ RLt(m.input_value, hi.input_value)

\* C2: for two adjacent stored points (x1, y1), (x2, y2) of one (table,
\* condition) series and a non-stored x with x1 < x < x2, get_lookup_value
\* returns y1 + (x - x1) * (y2 - y1) / (x2 - x1) rounded to 2 decimals, and that
\* value lies between min(y1, y2) and max(y1, y2) inclusive.
C2_InterpolationWithinBounds ==
    last.op = "get_lookup_value" =>
        \A lo, hi \in AskedSeries :
            (/\ Adjacent(AskedSeries, lo, hi)
             /\ RLt(lo.input_value, last.args.input_value)
             /\ RLt(last.args.input_value, hi.input_value)) =>
                /\ last.out.raised = ""
                /\ last.out.value =
                      RRound(RAdd(lo.output_value,
                                  RDiv(RMul(RSub(last.args.input_value, lo.input_value),
                                            RSub(hi.output_value, lo.output_value)),
                                       RSub(hi.input_value, lo.input_value))), 100)
                /\ RLe(RMin(lo.output_value, hi.output_value), last.out.value)
                /\ RLe(last.out.value, RMax(lo.output_value, hi.output_value))

\* C3: get_lookup_value(t, x, c) fails with the out-of-range error whenever the
\* series (t, c) has no entry with input_value <= x or no entry with
\* input_value >= x (x below the minimum, above the maximum, or the series
\* empty): it never returns a value then, so it never extrapolates.
C3_OutOfRangeRaises ==
    (/\ last.op = "get_lookup_value"
     /\ \/ ~\E e \in AskedSeries : RLe(e.input_value, last.args.input_value)
        \/ ~\E e \in AskedSeries : RGe(e.input_value, last.args.input_value))
    => last.out.raised = "ValueError"

----------------------------------------------------------------------------
(* Properties of method selection                                          *)

\* C4: method selection is total over every (peril, growth stage) pair and
\* follows first-match rule order: Emergence, VE-V2, V3-V5, V6-V8 give
\* HAIL_DAMAGE under HAIL and STAND_REDUCTION under any other peril; V9-V12, VT,
\* R1 give HAIL_DAMAGE under HAIL; R4, R5, Mature give WEIGHT_METHOD under any
\* peril; every remaining pair gives STAND_REDUCTION; no other method is returned.
C4_MethodSelection ==
    last.op = "determine_primary_method" =>
        /\ last.args.peril \in PerilType /\ last.args.stage \in GrowthStage
        /\ last.out \in {"HAIL_DAMAGE", "STAND_REDUCTION", "WEIGHT_METHOD"}
        /\ last.out =
              CASE last.args.stage \in {"Emergence", "VE-V2", "V3-V5", "V6-V8"}
                        /\ last.args.peril = "HAIL" -> "HAIL_DAMAGE"
                [] last.args.stage \in {"Emergence", "VE-V2", "V3-V5", "V6-V8"}
                        /\ last.args.peril # "HAIL" -> "STAND_REDUCTION"
                [] last.args.stage \in {"V9-V12", "VT", "R1"}
                        /\ last.args.peril = "HAIL" -> "HAIL_DAMAGE"
                [] last.args.stage \in {"R4", "R5", "Mature"} -> "WEIGHT_METHOD"
                [] OTHER -> "STAND_REDUCTION"

\* a mid-season stage under a peril other than hail has fallen through to the
\* last rule
C4_MidSeasonFallsThrough ==
    /\ last.op = "determine_primary_method"
    /\ last.args.stage \in {"V9-V12", "VT", "R1"}
    /\ last.args.peril # "HAIL"
    /\ last.out = "STAND_REDUCTION"

----------------------------------------------------------------------------
(* Properties of the calculators                                           *)

Complete(op) == last.op = op /\ last.out.raised = ""

\* C5: no calculator propagates a resolver out-of-range failure to its caller;
\* each call site substitutes its fallback and the calculator still returns a
\* complete result: stand reduction uses the percent stand as potential yield,
\* hail stand damage uses the raw percent reduction, hail defoliation damage
\* uses 0, the weight method's moisture and test-weight factors use 1.0, and
\* the tonnage moisture factor uses 1.0.
C5_OutOfRangeFallsBack ==
    /\ last.op \in {"calculate_stand_reduction", "calculate_hail_damage",
                    "calculate_weight_method", "calculate_tonnage_method"}
          => last.out.raised # "ValueError"
    /\ Complete("calculate_stand_reduction") =>
          \A i \in DOMAIN last.out.loop :
              last.out.loop[i].lookup.raised = "ValueError" =>
                  /\ last.out.loop[i].percent_potential = last.out.loop[i].percent_stand
                  /\ last.out.sample_details[i].percent_potential_yield
                        = last.out.sample_details[i].percent_stand
    /\ Complete("calculate_hail_damage") =>
          \A i \in DOMAIN last.out.loop :
              /\ last.out.loop[i].stand_lookup.raised = "ValueError" =>
                    last.out.loop[i].stand_damage_pct = last.out.loop[i].percent_reduction
              /\ last.out.loop[i].defol_lookup.raised = "ValueError" =>
                    last.out.loop[i].defoliation_damage_pct = Zero
    /\ Complete("calculate_weight_method") =>
          /\ last.out.moisture_lookup.raised = "ValueError" => last.out.moisture_factor = One
          /\ last.out.test_weight_lookup.raised = "ValueError" =>
                last.out.test_weight_factor = One
    /\ Complete("calculate_tonnage_method") =>
          (last.out.moisture_lookup.raised = "ValueError" => last.out.moisture_factor = One)

\* a hail call on seeded charts has had both of a sample's lookups fail out of
\* range and has returned a complete result
C5_HailFellBackTwice ==
    /\ Complete("calculate_hail_damage")
    /\ HasTable(store, "exhibit13_hailStandReduction")
    /\ HasTable(store, "exhibit15_leafLoss")
    /\ \E i \in DOMAIN last.out.loop :
        /\ last.out.loop[i].stand_lookup.raised = "ValueError"
        /\ last.out.loop[i].defol_lookup.raised = "ValueError"

\* what the hail call was given for sample i and what its loop computed
HailGiven(i) == last.args.samples[i]
HailLoop(i) == last.out.loop[i]
HailDetail(i) == last.out.sample_details[i]

\* stalk severity none / light / moderate / severe as 0 / 10 / 35 / 75
SeverityPct(severity) ==
    CASE severity = "none" -> Zero
      [] severity = "light" -> R(10)
      [] severity = "moderate" -> R(35)
      [] severity = "severe" -> R(75)

\* min(100, stand + defoliation + stalk + growing point + ear + other direct)
\* over the damages the loop computed for sample i
CappedSum(i) ==
    RMin(Hundred,
         RAdd(HailLoop(i).stand_damage_pct,
         RAdd(HailLoop(i).defoliation_damage_pct,
         RAdd(SeverityPct(HailGiven(i).stalk_damage_severity),
         RAdd(HailGiven(i).growing_point_damage_pct,
         RAdd(HailGiven(i).ear_damage_pct, HailGiven(i).direct_damage_pct))))))

\* the same sum over the damages the response reports for sample i
ReportedCappedSum(i) ==
    RMin(Hundred,
         RAdd(HailDetail(i).stand_damage_pct,
         RAdd(HailDetail(i).defoliation_damage_pct,
         RAdd(HailDetail(i).stalk_damage_pct,
         RAdd(HailDetail(i).growing_point_damage_pct,
         RAdd(HailDetail(i).ear_damage_pct, HailDetail(i).direct_damage_other_pct))))))

HailIndices == DOMAIN last.args.samples

StandGiven(i) == last.args.samples[i]
StandLoop(i) == last.out.loop[i]
StandIndices == DOMAIN last.args.samples

\* (surviving_plants / (length x row width)) x 10000 / normal population x 100,
\* clamped to [0, 100]
PercentOfNormalStand(i) ==
    RMin(Hundred, RMax(Zero,
        RMul(RDiv(RMul(RDiv(R(StandGiven(i).surviving_plants),
                            RMul(StandGiven(i).length_measured_m, StandGiven(i).row_width_m)),
                       R(10000)),
                  R(last.args.normal_pop)),
             Hundred)))

MatureSet == {"silked", "blister", "milk", "dough", "dent", "mature"}

\* the parts of C7 that concern one sample
StandPerSample ==
    \A i \in StandIndices :
        /\ StandLoop(i).percent_stand = PercentOfNormalStand(i)
        /\ last.args.growth_stage \in MatureSet =>
              /\ StandLoop(i).percent_potential = PercentOfNormalStand(i)
              /\ ~StandLoop(i).lookup.consulted

\* 36 plants on 10 m x 0.9 m at 40000 plants/ha
ThirtySixPlants ==
    /\ Len(last.args.samples) = 1
    /\ StandGiven(1).surviving_plants = 36
    /\ StandGiven(1).length_measured_m = R(10)
    /\ StandGiven(1).row_width_m = Dec(9, 10)
    /\ last.args.normal_pop = 40000
    /\ last.args.growth_stage \in MatureSet

MeanPotential ==
    Mean(RSum([i \in StandIndices |-> StandLoop(i).percent_potential]),
         Len(last.args.samples))

\* C7, as the code has it: each sample's percent stand is (surviving_plants /
\* (length x row width)) x 10000 / normal population x 100 clamped to [0, 100];
\* in a mature stage the potential yield % is that percent stand and the
\* resolver is not consulted; loss_percentage is 100 minus the mean of the
\* unrounded per-sample potential yield %, rounded to two decimals (36 plants
\* on 10 m x 0.9 m at 40000 plants/ha give 100% stand and 0% loss).
C7_StandLossRounded ==
    Complete("calculate_stand_reduction") =>
        /\ StandPerSample
        /\ last.out.loss_percentage = RRound(RSub(Hundred, MeanPotential), 100)
        /\ ThirtySixPlants =>
              /\ StandLoop(1).percent_stand = Hundred
              /\ last.out.loss_percentage = Zero

\* a mature-stage call has returned a loss that is not 100 minus the mean
\* until that is rounded, and no sample consulted the resolver
C7_MatureLossRounded ==
    /\ Complete("calculate_stand_reduction")
    /\ last.args.growth_stage \in MatureSet
    /\ Len(last.args.samples) = 2
    /\ \A i \in StandIndices : ~StandLoop(i).lookup.consulted
    /\ RSub(Hundred, MeanPotential) # RRound(RSub(Hundred, MeanPotential), 100)
    /\ last.out.loss_percentage = RRound(RSub(Hundred, MeanPotential), 100)

\* C7: in calculate_stand_reduction each sample's percent stand is
\* (surviving_plants / (length x row width)) x 10000 / normal population x 100
\* clamped to [0, 100]; in a mature stage the potential yield % equals that
\* percent stand without consulting the resolver; the aggregate loss % equals
\* 100 minus the mean of the per-sample potential yield % -- read over the
\* potentials as computed, or over the potentials as reported.
C7_StandLossExact ==
    Complete("calculate_stand_reduction") =>
        /\ StandPerSample
        /\ \/ last.out.loss_percentage = RSub(Hundred, MeanPotential)
           \/ last.out.loss_percentage =
                 RSub(Hundred,
                      Mean(RSum([i \in StandIndices |->
                                    last.out.sample_details[i].percent_potential_yield]),
                           Len(last.args.samples)))

\* C8: for every sample list and any store contents, the result of
\* calculate_stand_reduction and of calculate_hail_damage has loss_percentage
\* in [0, 100] and average_potential_yield_pct equal to 100 minus
\* loss_percentage.
C8_LossWithinRange ==
    (Complete("calculate_stand_reduction") \/ Complete("calculate_hail_damage")) =>
        /\ RLe(Zero, last.out.loss_percentage)
        /\ RLe(last.out.loss_percentage, Hundred)
        /\ last.out.average_potential_yield_pct = RSub(Hundred, last.out.loss_percentage)

\* normal_yield x replant_factor x price x share - replant_cost
ReplantValue ==
    RSub(RMul(RMul(RMul(last.args.normal_yield, last.args.replant_factor),
                   last.args.price), last.args.share),
         last.args.replant_cost)

\* normal_yield x stand_pct / 100 x price x share
KeepValue ==
    RMul(RMul(RDiv(RMul(last.args.normal_yield, last.args.stand_pct), Hundred),
              last.args.price), last.args.share)

----------------------------------------------------------------------------
(* Properties of the sampling-point generator                              *)

\* C10: whenever generate_sampling_points returns normally it returns exactly
\* min_samples points, numbered 1..min_samples in acceptance order, every point
\* passed the containment test against the boundary shrunk by the edge buffer,
\* and every pair of returned points is at least min_distance_meters apart;
\* containment and pairwise spacing hold for the accepted list after every
\* loop iteration.
C10_PlanContainedAndSpaced ==
    /\ phase = "returned" =>
          /\ Len(points) = plan.min_samples
          /\ \A i \in DOMAIN points : points[i].sample_number = i
    /\ phase \in {"loop", "returned"} =>
          /\ \A i \in DOMAIN points : points[i].inside_result
          /\ \A i, j \in DOMAIN points :
                i < j => Distance2(points[i].lat, points[i].lng, points[j].lat, points[j].lng)
                            >= plan.min_distance * plan.min_distance

\* the budget of candidate draws is kept, and a call that has ended has
\* returned a full list or has raised with a short one
AttemptBudgetKept ==
    /\ attempts <= plan.min_samples * AttemptsPerSample
    /\ phase = "returned" => Len(points) = plan.min_samples
    /\ phase = "raised" => Len(points) < plan.min_samples

\* C11: the rejection loop of generate_sampling_points always terminates after
\* at most min_samples x 100 candidate draws, whatever the geometry answers;
\* on termination it returns exactly min_samples points or raises the
\* sampler's error, and it never returns a list shorter than min_samples.
C11_LoopTerminatesWithinBudget ==
    /\ []AttemptBudgetKept
    /\ [][LoopIteration => attempts' = attempts + 1]_vars
    /\ (phase = "loop") ~> (phase \in {"returned", "raised"})

\* every draw of the budget was spent and the call raised one point short
C11_BudgetExhausted ==
    /\ phase = "raised"
    /\ plan.min_samples > 0
    /\ attempts = plan.min_samples * AttemptsPerSample
    /\ Len(points) = plan.min_samples - 1

----------------------------------------------------------------------------
(* Properties of the validation engine                                     *)

StatsAsked == last.op = "validate_statistical_consistency"

\* the breakdown carries the metric the method is judged on
MetricPresent ==
    /\ Len(last.args.samples) > 0
    /\ MetricKey(last.args.method) \in DOMAIN last.args.samples[1]

AskedMetric ==
    [i \in DOMAIN last.args.samples |-> last.args.samples[i][MetricKey(last.args.method)]]

AskedMean == RDiv(RSum(AskedMetric), R(Len(AskedMetric)))

\* the population variance, as mean of squares minus square of the mean
AskedVariance ==
    RSub(RDiv(RSum([i \in DOMAIN AskedMetric |-> Square(AskedMetric[i])]),
              R(Len(AskedMetric))),
         Square(AskedMean))

\* CV = stddev / mean exists
CvDefined == MetricPresent /\ AskedMean # Zero

\* stddev / mean < 0.05
CvUnderFivePercent ==
    /\ CvDefined
    /\ \/ RLt(AskedMean, Zero)
       \/ RLt(RMul(R(400), AskedVariance), Square(AskedMean))

\* stddev / mean > 0.40
CvOverFortyPercent ==
    /\ CvDefined
    /\ RGt(AskedMean, Zero)
    /\ RGt(RMul(R(25), AskedVariance), RMul(R(4), Square(AskedMean)))

Flagged(check_type, status, message) ==
    \E i \in DOMAIN last.out.flags :
        /\ last.out.flags[i].check_type = check_type
        /\ last.out.flags[i].status = status
        /\ last.out.flags[i].message = message

\* C12: validate_statistical_consistency returns no flag at all for fewer
\* than 3 samples; for more than 5 samples whose metric values have
\* CV = stddev / mean below 0.05 it emits the statistical WARNING
\* "suspiciously uniform", and it emits that warning in no other case; with 3
\* samples or more a CV above 0.40 emits the statistical "high variance"
\* WARNING.
C12_UniformityWarning ==
    StatsAsked =>
        /\ Len(last.args.samples) < 3 => last.out.flags = <<>>
        /\ Flagged("statistical", "WARNING", "Data is suspiciously uniform (CV < 5%)")
              <=> (Len(last.args.samples) > 5 /\ CvUnderFivePercent)
        /\ (Len(last.args.samples) >= 3 /\ CvOverFortyPercent)
              => Flagged("statistical", "WARNING", "High variance detected")

\* six samples or more that differ a little were called suspiciously uniform
C12_NearUniformWarned ==
    /\ StatsAsked
    /\ Len(last.args.samples) > 5
    /\ CvDefined
    /\ RGt(AskedMean, Zero)
    /\ RGt(AskedVariance, Zero)
    /\ Flagged("statistical", "WARNING", "Data is suspiciously uniform (CV < 5%)")

\* sample k stands alone: the other samples agree with each other and the
\* value of sample k is at least 20 away from theirs
LoneOutlier(k) ==
    /\ \A i, j \in DOMAIN AskedMetric \ {k} : AskedMetric[i] = AskedMetric[j]
    /\ \A i \in DOMAIN AskedMetric \ {k} :
          RGe(Square(RSub(AskedMetric[k], AskedMetric[i])), R(400))

\* C13: for any breakdown of at least 4 samples in which a single sample's
\* metric value lies far from the values of all the others,
\* validate_statistical_consistency emits an outlier FAIL flag for that sample
\* and the flag names that sample's 1-based index.
C13_LoneOutlierFlagged ==
    (StatsAsked /\ MetricPresent /\ Len(last.args.samples) >= 4) =>
        \A k \in DOMAIN AskedMetric :
            LoneOutlier(k) =>
                \E i \in DOMAIN last.out.flags :
                    /\ last.out.flags[i].check_type = "outlier"
                    /\ last.out.flags[i].status = "FAIL"
                    /\ last.out.flags[i].number = k

\* the least whole number of points that is at least area x 0.5
RecommendedPoints(area) ==
    CHOOSE c \in 0..(area[1] + 1) :
        /\ RGe(R(2 * c), area)
        /\ RLt(R(2 * (c - 1)), area)

\* C14: validate_sample_sufficiency returns exactly one FAIL flag and no
\* density flag when num_samples < 3; when num_samples >= 3 and the field
\* area is above 0 it returns exactly one WARNING naming ceil(area x 0.5)
\* recommended points if num_samples / area < 0.5, and no flag otherwise.
C14_SufficiencyFlags ==
    last.op = "validate_sample_sufficiency" =>
        /\ last.args.num_samples < 3 =>
              /\ Len(last.out.flags) = 1
              /\ last.out.flags[1].check_type = "sufficiency"
              /\ last.out.flags[1].status = "FAIL"
        /\ (last.args.num_samples >= 3 /\ RGt(last.args.field_area_ha, Zero)) =>
              IF RLt(R(2 * last.args.num_samples), last.args.field_area_ha)
              THEN /\ Len(last.out.flags) = 1
                   /\ last.out.flags[1].check_type = "sufficiency"
                   /\ last.out.flags[1].status = "WARNING"
                   /\ last.out.flags[1].number = RecommendedPoints(last.args.field_area_ha)
              ELSE last.out.flags = <<>>

\* a field of 12.5 ha sampled too thinly: 7 points were recommended
C14_SevenPointsRecommended ==
    /\ last.op = "validate_sample_sufficiency"
    /\ last.args.num_samples >= 3
    /\ last.args.field_area_ha = Dec(125, 10)
    /\ Len(last.out.flags) = 1
    /\ last.out.flags[1].status = "WARNING"
    /\ last.out.flags[1].number = 7

----------------------------------------------------------------------------
(* Properties of the calculators as functions of their inputs and the store *)

\* C15: re-invoking any calculator (stand reduction, hail damage, weight,
\* maturity line, tonnage, replanting, stage modification) with identical
\* inputs on a store nobody else has changed in between returns an identical
\* result on the second call.
C15_SecondCallIdentical ==
    "again" \in DOMAIN last => last.again = last.out

\* a tonnage calculation that read a seeded moisture factor was repeated
C15_TonnageRepeated ==
    /\ "again" \in DOMAIN last
    /\ last.op = "calculate_tonnage_method"
    /\ last.out.raised = ""
    /\ Len(last.args.samples) > 0
    /\ last.out.moisture_factor # One

\* C16: no calculator invocation changes the LookupStore: for every
\* calculator, every input and every initial store content, the set of lookup
\* entries after the call equals the set before it.
C16_CalculatorsLeaveStore ==
    [][last'.op \in Calculators => store' = store]_vars

\* C18: degenerate inputs never make a calculator raise: a zero sample area
\* in the stand reduction, weight, maturity-line and tonnage methods, and a
\* zero price in replanting analysis, each yield a returned result.
C18_DegenerateInputsReturn ==
    last.op \in Calculators \ {"calculate_stage_modification"} =>
        last.out.raised # "ZeroDivisionError"

\* what the request of caller p returns when it runs alone on the store it
\* started on
AloneResult(p) ==
    Invoke(calls[p].request.op, calls[p].request, "low", calls[p].start).out

\* C17: for any interleaving of two concurrent calculator invocations on the
\* same LookupStore, two hail-damage or two tonnage calculations on a store
\* not yet seeded included, each invocation completes without error with the
\* result it returns when run alone, and the store never holds two entries
\* with the same (table_name, input_value, condition).
C17_ConcurrentCallsComplete ==
    /\ UniqueLookupCell(store)
    /\ \A p \in Callers :
          /\ calls[p].pc # "raised"
          /\ calls[p].pc = "returned" => calls[p].out = AloneResult(p)

----------------------------------------------------------------------------
(* Properties of the assessment orchestrator                               *)

Assessed == last.op = "perform_comprehensive_assessment"

\* C19: every valid request gets a result instead of an exception; the
\* result names the selected method, carries the chosen calculator's loss
\* unchanged, and its flags are the statistical flags over the calculator's
\* per-sample breakdown, then the sufficiency flags for the sample count
\* against the request's field area, then the biological flags.
C19_AssessmentReturnsMergedResult ==
    Assessed =>
        /\ last.out.raised = ""
        /\ last.out.primary_method_used =
              determine_primary_method(last.args.primary_peril, last.args.growth_stage)
        /\ last.out.calculated_loss_pct =
              Get(last.out.detailed_breakdown, "loss_percentage", Zero)
        /\ last.out.validation_flags =
              AssessmentFlags(last.args, last.out.primary_method_used,
                              last.out.detailed_breakdown,
                              last.args.field_context.field_size_ha)

\* C20: every measurement field _map_samples writes for the selected method
\* is a field the chosen calculator reads under the same name, so the value
\* the calculator works with is the value that was written.
C20_MappedFieldsAreRead ==
    Assessed =>
        \A i \in DOMAIN last.out.sample_dicts :
            \A f \in DOMAIN last.out.sample_dicts[i] :
                /\ f \in DOMAIN ReadSample(last.out.sample_dicts[i],
                                          MethodDefaults(last.out.primary_method_used))
                /\ ReadSample(last.out.sample_dicts[i],
                              MethodDefaults(last.out.primary_method_used))[f]
                      = last.out.sample_dicts[i][f]

----------------------------------------------------------------------------
(* Properties of the stage modification                                    *)

StageAsked == last.op = "calculate_stage_modification" /\ last.args.maturity_days > 0

\* days_from_planting x 120 / maturity_days
RescaledDays(a) == RDiv(R(a.days_from_planting * 120), R(a.maturity_days))

StageLabels ==
    <<"VE-V2", "V3-V5", "V6-V8", "V9-V12", "VT (Tassel)", "R1-R2 (Silk/Blister)",
      "R3-R4 (Milk/Dough)", "R5+ (Dent/Mature)">>

BucketOf(label) == CHOOSE i \in DOMAIN StageLabels : StageLabels[i] = label

\* C24: the stage label is the bucket of sd = days_from_planting x 120 /
\* maturity_days with lower-inclusive boundaries 15, 30, ..., 105 (sd = 60 is
\* 'VT (Tassel)'), standard_equivalent_days is sd truncated, and more days
\* from planting never give an earlier bucket.
C24_StageIsBucketOfRescaledDays ==
    StageAsked =>
        /\ last.out.adjusted_growth_stage = StageOfDays(RescaledDays(last.args))[1]
        /\ last.out.standard_equivalent_days = Trunc(RescaledDays(last.args))
        /\ \A d \in StageModDays :
              d >= last.args.days_from_planting =>
                  BucketOf(calculate_stage_modification(d, last.args.maturity_days)
                              .adjusted_growth_stage)
                      >= BucketOf(last.out.adjusted_growth_stage)

----------------------------------------------------------------------------
(* Properties of the economic comparison                                   *)

Compared == last.op = "compare_grain_vs_silage"

Priced ==
    /\ last.args.market # None
    /\ last.args.market.silage_price_per_tonne \notin {None, Zero}

HarvestCost == IF last.args.market.harvest_cost_per_ha = None THEN Zero
               ELSE last.args.market.harvest_cost_per_ha

\* tonnes x silage price - 1.5 x harvest cost
SilageNetValue ==
    RSub(RMul(last.args.silage_tonnes_ha, last.args.market.silage_price_per_tonne),
         RMul(Dec(15, 10), HarvestCost))

\* yield_kg / 1000 x grain price - harvest cost
GrainNetValue ==
    RSub(RDiv(RMul(last.args.yield_kg_ha, last.args.market.grain_price_per_tonne), R(1000)),
         HarvestCost)

NetDifference ==
    IF RGe(SilageNetValue, GrainNetValue) THEN RSub(SilageNetValue, GrainNetValue)
    ELSE RSub(GrainNetValue, SilageNetValue)

ComparisonDecided ==
    /\ ~Priced => last.out = None
    /\ Priced =>
          /\ last.out # None
          /\ last.out.recommended_strategy =
                (IF RGt(SilageNetValue, GrainNetValue) THEN "HARVEST_SILAGE"
                 ELSE "HARVEST_GRAIN")
          /\ RGe(last.out.financial_gain_estimate, Zero)

\* C22 (as the code has it): no recommendation when the silage price is
\* absent or zero; otherwise HARVEST_SILAGE exactly when the silage net value
\* is strictly above the grain net value, and financial_gain_estimate is the
\* absolute difference of the two net values rounded to two decimals, never
\* negative; the outcome is fixed by the two estimates and the market data.
C22_RecommendationRounded ==
    Compared =>
        /\ ComparisonDecided
        /\ Priced => last.out.financial_gain_estimate = RRound(NetDifference, 100)

\* a comparison whose net difference has a third decimal
C22_GainRoundedToCents ==
    /\ Compared
    /\ Priced
    /\ last.out.recommended_strategy = "HARVEST_SILAGE"
    /\ NetDifference # RRound(NetDifference, 100)

\* C22 (as stated): as above, with financial_gain_estimate the absolute
\* difference itself.
C22_RecommendationExact ==
    Compared =>
        /\ ComparisonDecided
        /\ Priced => last.out.financial_gain_estimate = NetDifference

----------------------------------------------------------------------------
(* Properties of the orchestrator's economic step                          *)

WantsEconomics ==
    /\ last.args.market_data # None
    /\ last.out.primary_method_used = "WEIGHT_METHOD"

HasFreshWeight ==
    \E i \in DOMAIN last.args.samples :
        RGt(Get(last.args.samples[i].weights, "fresh_weight", Zero), Zero)

\* C21: the economic comparison is invoked exactly when market data came
\* with the request and the method is WEIGHT_METHOD; it then gets the
\* aggregate yield of the weight calculation and the aggregate tonnage of the
\* tonnage calculation, and samples with a positive fresh weight give a
\* positive silage estimate.
C21_EconomicsOnWeightWithMarket ==
    Assessed =>
        /\ last.out.economic.invoked <=> WantsEconomics
        /\ WantsEconomics =>
              /\ last.out.economic.yield_kg = last.out.method_result.avg_yield_bu_acre
              /\ last.out.economic.tonnes_silage =
                    SilageEstimate(store, last.args, last.pick).out.tons_per_acre
        /\ WantsEconomics /\ HasFreshWeight =>
              RGt(EconomicAnalysis(store, last.args, "WEIGHT_METHOD", last.out.method_result,
                                   last.pick).tonnes_silage, Zero)

----------------------------------------------------------------------------
(* Properties of the orchestrator's hail assessment                        *)

HailAssessed ==
    /\ Assessed
    /\ last.out.primary_method_used = "HAIL_DAMAGE"
    /\ "loop" \in DOMAIN last.out.method_result

\* C23: when the orchestrator selects Hail Damage, every sample's stand
\* reduction is resolved against a hail chart, exhibit 13 for the early
\* vegetative stages and exhibit 14 for the mid stages, and its defoliation
\* against the leaf-loss chart under the same stage key; the raw percentage
\* stands only where the resolver was asked and failed.
C23_HailStagesReachCharts ==
    HailAssessed =>
        \A i \in DOMAIN last.out.method_result.loop :
            /\ last.out.method_result.loop[i].stand_lookup.consulted
            /\ last.out.method_result.loop[i].stand_lookup.table =
                  (IF last.args.growth_stage \in early_stages
                   THEN "exhibit13_hailStandReduction"
                   ELSE "exhibit14_hailStandReduction")
            /\ RGt(last.out.method_result.loop[i].percent_defoliation, Zero) =>
                  /\ last.out.method_result.loop[i].defol_lookup.consulted
                  /\ last.out.method_result.loop[i].defol_lookup.table = "exhibit15_leafLoss"
                  /\ last.out.method_result.loop[i].defol_lookup.stage =
                        last.out.method_result.loop[i].stand_lookup.stage

----------------------------------------------------------------------------
(* Properties of the statistics over a calculator's breakdown              *)

\* the calculator the orchestrator runs for each method it can select
SelectableMethods ==
    [calculate_stand_reduction |-> "STAND_REDUCTION",
     calculate_hail_damage |-> "HAIL_DAMAGE",
     calculate_weight_method |-> "WEIGHT_METHOD"]

BreakdownReturned ==
    /\ last.op \in DOMAIN SelectableMethods
    /\ last.out.raised = ""
    /\ last.out.sample_details # <<>>

\* C26: for each method the orchestrator can select, the field
\* validate_statistical_consistency evaluates is a field of every entry of
\* that calculator's per-sample breakdown, so the breakdown is screened
\* instead of being passed over because the field is missing.
C26_MetricIsInBreakdown ==
    BreakdownReturned =>
        /\ \A i \in DOMAIN last.out.sample_details :
              MetricKey(SelectableMethods[last.op]) \in DOMAIN last.out.sample_details[i]
        /\ Len(MetricValues(last.out.sample_details, MetricKey(SelectableMethods[last.op])))
              = Len(last.out.sample_details)

----------------------------------------------------------------------------
(* Properties of the lookup-chart stage key                                *)

\* the stage keys the calculators test for and the seeded charts are keyed by
RecognisedStageKeys ==
    { stages11[i] : i \in DOMAIN stages11 }
    \cup {"7thLeaf", "8thLeaf", "9thLeaf", "10thLeaf"}
    \cup late_stages \cup mature_stages
    \cup { e.stage_or_condition : e \in seed_lookup_tables({}) }

\* C25: every lookup_table_stage that calculate_stage_modification emits is,
\* letter for letter, a stage key the stand-reduction and hail calculators
\* test for or the seeded charts are keyed by.
C25_LookupStageIsRecognised ==
    (last.op = "calculate_stage_modification" /\ last.out.raised = "") =>
        last.out.lookup_table_stage \in RecognisedStageKeys

----------------------------------------------------------------------------
(* Properties of seeding                                                   *)

SeededCharts == Exhibit11 \cup Exhibit13 \cup Exhibit14 \cup Exhibit15

HoldsCell(db, e) ==
    \E f \in db : /\ f.table_name = e.table_name
                  /\ f.input_value = e.input_value
                  /\ f.stage_or_condition = e.stage_or_condition

\* C27: whenever seed_lookup_tables has returned normally, every seeded cell
\* of exhibits 11, 13, 14 and 15 is in the store, whatever the store held
\* before; a further call would change nothing, and no (table_name,
\* input_value, condition) cell is held twice.
C27_SeedingCompletes ==
    (last.op = "seed_lookup_tables" /\ last.out.raised = "") =>
        /\ \A e \in SeededCharts : HoldsCell(store, e)
        /\ seed_lookup_tables(store) = store
        /\ UniqueLookupCell(store)

----------------------------------------------------------------------------
(* Properties of the order of calculator calls                             *)

\* the store as a calculate_hail_damage call leaves it
AfterHailDamage == calculate_hail_damage(store, <<>>, "8thLeaf", "low").db

\* the weight-method result, had calculate_hail_damage run just before
WeightAfterHail ==
    calculate_weight_method(AfterHailDamage, last.args.samples, last.args.moisture_pct,
                            last.args.test_weight, "low")

\* C28: from any store, calculate_weight_method gives the same result
\* (moisture_factor, test_weight_factor and yield) whether or not
\* calculate_hail_damage was invoked before it.
C28_WeightResultIgnoresEarlierCalls ==
    (last.op = "calculate_weight_method" /\ last.out.raised = "") =>
        /\ WeightAfterHail.raised = ""
        /\ WeightAfterHail.moisture_factor = last.out.moisture_factor
        /\ WeightAfterHail.test_weight_factor = last.out.test_weight_factor
        /\ WeightAfterHail.avg_yield_bu_acre = last.out.avg_yield_bu_acre

----------------------------------------------------------------------------
(* Properties of the hail stand damage                                     *)

HailOnSeededChart ==
    /\ last.op = "calculate_hail_damage"
    /\ last.args.growth_stage \in {"7thLeaf", "8thLeaf", "9thLeaf", "10thLeaf"}
    /\ Exhibit13 \subseteq store
    /\ last.out.raised = ""

\* the stand damage of a sample, had it had `destroyed` destroyed plants
StandDamageWith(sample, destroyed) ==
    HailSample(store, [sample EXCEPT !.destroyed_plants = destroyed],
               last.args.growth_stage, last.pick).stand_damage_pct

\* C29: on the seeded exhibit 13 and a stage from 7thLeaf to 10thLeaf, a
\* sample's stand damage is not below the stand damage of the same sample
\* with fewer destroyed plants, chart lookup or raw-percentage fallback alike.
C29_StandDamageMonotone ==
    HailOnSeededChart =>
        \A i \in DOMAIN last.args.samples :
            \A fewer \in 0..last.args.samples[i].destroyed_plants :
                RLe(StandDamageWith(last.args.samples[i], fewer),
                    StandDamageWith(last.args.samples[i],
                                    last.args.samples[i].destroyed_plants))

----------------------------------------------------------------------------
(* Properties of claim numbering                                           *)

\* C30: after any creations and deletions by users of any tenants, a
\* create_claim for a farm of the user's tenant assigns a claim_number that
\* no stored claim carried, so the stored claims keep pairwise distinct
\* numbers and no creation fails on the uniqueness of claim_number.
C30_ClaimNumbersFresh ==
    /\ \A c, d \in claims.rows : c.claim_number = d.claim_number => c = d
    /\ (last.op = "create_claim" /\ last.out.raised # "HTTP404") =>
          /\ last.out.raised = ""
          /\ \A c \in last.before : c.claim_number # last.out.claim_number

====
